---- MODULE Spec2Model ----
(***************************************************************************)
(* Survey data processor: the data-map lookups, the response-option        *)
(* extraction, the formula reference rewriting and the question-tab        *)
(* pipeline, modelled from the Python sources.                             *)
(*                                                                         *)
(* Text is a sequence of one-character strings, so that strip(), str(),    *)
(* f-string formatting and the regular-expression substitutions are        *)
(* computed character by character as the code computes them.              *)
(***************************************************************************)
EXTENDS Integers, Sequences, FiniteSets, TLC

VARIABLES
    \* formula reference rewriting (data_map.py, column_question_map.py,
    \* single_select_with_other.py)
    rnParts,      \* the template as written: literal pieces and reference tokens
    rnDir,        \* "none" | "down" | "across": which render has been applied
    rnOffset,     \* row_offset / col_offset of the render applied
    rnOut,        \* the rendered formula text
    \* marker lookups on a data-map sheet (data_map_extractor.py)
    lkMap,        \* the data-map sheet: its rows from row 4 on
    lkQ,          \* question_number
    lkH,          \* results of the calls of find_question_column_h_text
    lkN,          \* results of the calls of find_section_number_from_data_map
    \* extract_response_options on one question sheet (data_map_extractor.py)
    exMap,        \* the data-map sheet
    exQ,          \* question_number
    exSheet,      \* the question sheet
    exState,      \* "ready" | "returned"
    exRaw,        \* the 'raw data' sheet the formulas of the question sheet read
    exCounts,     \* the values Excel gives column D of the question sheet
    \* one run of main and process_excel_file (main.py, pipeline.py)
    inFile,       \* the input path: whether it exists, its suffix, its sheets
    exitCode,     \* what main has returned, -1 while it runs
    printed,      \* what main has printed to standard output
    exc,          \* the message of the exception in flight or caught
    pc,           \* the statement the run is at
    slot,         \* i of the loop of create_question_tabs
    raising,      \* an exception is in flight
    frames,       \* the calls the exception in flight has not left yet
    faultAt,      \* the slot whose builder raised, 0 if none did
    caught,       \* the slots whose signature lookup raised and returned None
    win32,        \* WIN32_AVAILABLE
    hasDataMap,   \* the workbook has a sheet titled 'data map'
    fileMap,      \* the data map with the values Excel calculates for it
    dataMap,      \* the data map of the workbook the tabs are built from
    sheets,       \* the sheets of the workbook, in workbook order
    disk,         \* what the run has written to the two output paths
    calcResult,   \* how calculate_excel_formulas went
    dispatched,   \* per slot: the builder its tab was handed to
    \* one call of get_next_version_filename (utils/file_utils.py)
    vfDir,        \* the directory "output" exists
    vfExisting,   \* the versions N whose file exists in the directory
    vfVersion,    \* version
    vfPc,         \* "idle" | "mkdir" | "loop" | "returned"
    vfResult,     \* the version of the path returned, 0 before the return
    \* the markers of the column question map (setup/column_question_map.py)
    smHeaders,    \* the headers in C3, C4, ... of the column question map
    smG,          \* the markers the simulation writes to G3, G4, ...
    smE,          \* the values Excel calculates for E3, E4, ...
    smPc          \* "idle" | "setup" | "simulated" | "calculated"

rnVars == <<rnParts, rnDir, rnOffset, rnOut>>
lkVars == <<lkMap, lkQ, lkH, lkN>>
exVars == <<exMap, exQ, exSheet, exState, exRaw, exCounts>>
mainVars == <<inFile, exitCode, printed>>
vfVars == <<vfDir, vfExisting, vfVersion, vfPc, vfResult>>
smVars == <<smHeaders, smG, smE, smPc>>
plVars == <<inFile, exitCode, printed, exc,
            pc, slot, raising, frames, faultAt, caught, win32, hasDataMap, fileMap,
            dataMap, sheets, disk, calcResult, dispatched>>

vars == <<rnParts, rnDir, rnOffset, rnOut, lkMap, lkQ, lkH, lkN,
          exMap, exQ, exSheet, exState, exRaw, exCounts,
          inFile, exitCode, printed, exc,
          pc, slot, raising, frames, faultAt, caught, win32, hasDataMap, fileMap,
          dataMap, sheets, disk, calcResult, dispatched,
          vfDir, vfExisting, vfVersion, vfPc, vfResult,
          smHeaders, smG, smE, smPc>>

----------------------------------------------------------------------------
(* Bounds *)

MaxTokens == 2        \* reference tokens per generated template
MaxTargetRow == 7     \* last row a template is copied down to
MaxLookupRows == 3    \* data rows of a generated data-map sheet (lookups)
MaxCalls == 2         \* calls of one lookup on the same sheet
MaxExtractRows == 2   \* data rows of a generated data-map sheet (extraction)
MaxPipelineRows == 2   \* rows of a generated data map of a run
MaxVersion == 6        \* highest version with a file in the output directory
MaxHeaders == 3        \* raw-data headers copied to the column question map

----------------------------------------------------------------------------
(* Characters and Python string primitives *)

UpperSeq == <<"A","B","C","D","E","F","G","H","I","J","K","L","M",
              "N","O","P","Q","R","S","T","U","V","W","X","Y","Z">>

DigitSeq == <<"0","1","2","3","4","5","6","7","8","9">>

\* [A-Z]
IsUpper(c) == \E k \in 1..26 : UpperSeq[k] = c

\* \d
IsDigit(c) == \E k \in 1..10 : DigitSeq[k] = c

DigitVal(c) == (CHOOSE k \in 1..10 : DigitSeq[k] = c) - 1

LetterIndex(c) == CHOOSE k \in 1..26 : UpperSeq[k] = c

\* int(s) for a string of decimal digits
RECURSIVE ParseInt(_)
ParseInt(ds) ==
    IF Len(ds) = 0 THEN 0
    ELSE 10 * ParseInt(SubSeq(ds, 1, Len(ds) - 1)) + DigitVal(ds[Len(ds)])

\* str(n) / f"{n}" for a natural number
RECURSIVE IntStr(_)
IntStr(n) ==
    IF n < 10 THEN <<DigitSeq[n + 1]>>
    ELSE IntStr(n \div 10) \o <<DigitSeq[(n % 10) + 1]>>

\* openpyxl.utils.column_index_from_string: letters -> 1-based index
RECURSIVE column_index_from_string(_)
column_index_from_string(ls) ==
    IF Len(ls) = 0 THEN 0
    ELSE 26 * column_index_from_string(SubSeq(ls, 1, Len(ls) - 1))
         + LetterIndex(ls[Len(ls)])

\* openpyxl.utils.get_column_letter: 1-based index -> letters
RECURSIVE get_column_letter(_)
get_column_letter(n) ==
    IF n = 0 THEN <<>>
    ELSE get_column_letter((n - 1) \div 26) \o <<UpperSeq[((n - 1) % 26) + 1]>>

\* first index >= i of s that does not satisfy the class (Len(s)+1 if none):
\* the end of a greedy [A-Z]+ or \d+ run starting at i
RECURSIVE UpperRunEnd(_, _)
UpperRunEnd(s, i) ==
    IF i <= Len(s) /\ IsUpper(s[i]) THEN UpperRunEnd(s, i + 1) ELSE i

RECURSIVE DigitRunEnd(_, _)
DigitRunEnd(s, i) ==
    IF i <= Len(s) /\ IsDigit(s[i]) THEN DigitRunEnd(s, i + 1) ELSE i

Contains(s, c) == \E k \in 1..Len(s) : s[k] = c

----------------------------------------------------------------------------
(* Vertical render: replace_row_ref under re.sub(r'([A-Z]+)(\d+)', ...) *)

\* the callback: group(1) = column letters, group(2) = row digits
replace_row_ref_off_by_one(col_ref, row_digits, row_offset) ==
    col_ref \o IntStr(ParseInt(row_digits) + row_offset + 1)

replace_row_ref(col_ref, row_digits, row_offset) ==
    IF ~Contains(col_ref \o row_digits, "$")
    THEN col_ref \o IntStr(ParseInt(row_digits) + row_offset)
    ELSE col_ref \o row_digits

\* ([A-Z]+)(\d+) matches at position i: greedy letters, then greedy digits
RowRefMatchesAt(s, i) ==
    LET j == UpperRunEnd(s, i)
    IN j > i /\ DigitRunEnd(s, j) > j

\* the positions of s at which the pattern matches
RowRefPositions(s) == {p \in 1..Len(s) : RowRefMatchesAt(s, p)}

\* the leftmost of the match positions at or after position i (0 if none)
NextRowRef(positions, i) ==
    LET hits == {p \in positions : p >= i}
    IN IF hits = {} THEN 0 ELSE CHOOSE p \in hits : \A p2 \in hits : p <= p2

\* re.sub from position i on: the text up to the next match is kept, the
\* match is replaced by the callback's result, and the scan resumes after it
RECURSIVE SubRowRefs(_, _, _, _)
SubRowRefs(s, positions, i, row_offset) ==
    LET p == NextRowRef(positions, i)
    IN IF p = 0 THEN SubSeq(s, i, Len(s))
       ELSE LET j == UpperRunEnd(s, p)
                k == DigitRunEnd(s, j)
            IN SubSeq(s, i, p - 1)
               \o replace_row_ref(SubSeq(s, p, j - 1), SubSeq(s, j, k - 1), row_offset)
               \o SubRowRefs(s, positions, k, row_offset)

\* adjusted_formula = re.sub(r'([A-Z]+)(\d+)', replace_row_ref, formula)
RenderDown(formula, row_offset) ==
    SubRowRefs(formula, RowRefPositions(formula), 1, row_offset)

----------------------------------------------------------------------------
(* Horizontal render: adjust_col_ref under                                 *)
(* re.sub(r'(?<!\$)([A-Z]+)(\$)(\d+)', ...)                                *)

\* the callback: group(1) = column letters, group(2) = "$", group(3) = digits
adjust_col_ref_and_row(col_letter, dollar, row_ref, col_offset) ==
    get_column_letter(column_index_from_string(col_letter) + col_offset)
    \o dollar \o IntStr(ParseInt(row_ref) + col_offset)

adjust_col_ref(col_letter, dollar, row_ref, col_offset) ==
    get_column_letter(column_index_from_string(col_letter) + col_offset)
    \o dollar \o row_ref

\* (?<!\$)([A-Z]+)(\$)(\d+) matches at position i
ColRefMatchesAt(s, i) ==
    LET j == UpperRunEnd(s, i)
    IN /\ (i = 1 \/ s[i - 1] # "$")              \* (?<!\$)
       /\ j > i                                   \* ([A-Z]+)
       /\ j <= Len(s) /\ s[j] = "$"               \* (\$)
       /\ DigitRunEnd(s, j + 1) > j + 1           \* (\d+)

\* the positions of s at which the pattern matches
ColRefPositions(s) == {p \in 1..Len(s) : ColRefMatchesAt(s, p)}

\* the leftmost of the match positions at or after position i (0 if none)
NextColRef(positions, i) ==
    LET hits == {p \in positions : p >= i}
    IN IF hits = {} THEN 0 ELSE CHOOSE p \in hits : \A p2 \in hits : p <= p2

RECURSIVE SubColRefs(_, _, _, _)
SubColRefs(s, positions, i, col_offset) ==
    LET p == NextColRef(positions, i)
    IN IF p = 0 THEN SubSeq(s, i, Len(s))
       ELSE LET j == UpperRunEnd(s, p)
                k == DigitRunEnd(s, j + 1)
            IN SubSeq(s, i, p - 1)
               \o adjust_col_ref(SubSeq(s, p, j - 1), <<"$">>,
                                 SubSeq(s, j + 1, k - 1), col_offset)
               \o SubColRefs(s, positions, k, col_offset)

\* adjusted_formula = re.sub(r'(?<!\$)([A-Z]+)(\$)(\d+)', adjust_col_ref, ...)
RenderAcross(formula, col_offset) ==
    SubColRefs(formula, ColRefPositions(formula), 1, col_offset)

----------------------------------------------------------------------------
(* Cell values and the data-map sheet *)

None == [t |-> "none"]
IntV(n) == [t |-> "int", n |-> n]
StrV(s) == [t |-> "str", s |-> s]

\* str(value) of a cell value that is not None
PyStr(v) == IF v.t = "int" THEN IntStr(v.n) ELSE v.s

\* truth value of a cell value: None, 0 and '' are false
Truthy(v) ==
    CASE v.t = "none" -> FALSE
      [] v.t = "int" -> v.n # 0
      [] v.t = "str" -> Len(v.s) > 0

RECURSIVE LStrip(_)
LStrip(s) == IF Len(s) > 0 /\ s[1] = " " THEN LStrip(Tail(s)) ELSE s

RECURSIVE RStrip(_)
RStrip(s) ==
    IF Len(s) > 0 /\ s[Len(s)] = " " THEN RStrip(SubSeq(s, 1, Len(s) - 1)) ELSE s

\* s.strip()
Strip(s) == RStrip(LStrip(s))

\* A data-map sheet is the sequence of its rows from row 4 on; a row holds
\* the columns the program reads: C (question info / text), D (response
\* code), E (response label), G (marker), H (type signature), L (column
\* identifier), N (section number), P (option pattern).
DataStartRow == 4

\* data_map_ws.max_row
MaxRowOf(ws) == DataStartRow - 1 + Len(ws)

\* data_map_ws.cell(row=row, column=...).value
CellOf(ws, row, col) == ws[row - (DataStartRow - 1)][col]

TextSystem == <<"S","y","s","t","e","m">>

\* the row test of the marker scans:
\* cell_value is not None and str(cell_value).strip() == str(question_number)
MarkerMatches(ws, row, question_number) ==
    LET cell_value == CellOf(ws, row, "G")
    IN cell_value # None /\ Strip(PyStr(cell_value)) = IntStr(question_number)

\* find_question_column_h_text, lines 150-166: the value returned from the
\* matching row
ColumnHValueAt(ws, row, question_number) ==
    LET column_h_value == CellOf(ws, row, "H")
    IN IF Truthy(column_h_value) /\ column_h_value.t = "str"
          /\ column_h_value.s[1] = "="
       THEN LET question_info == CellOf(ws, row, "C")
            IN IF Truthy(question_info) /\ Len(Strip(PyStr(question_info))) > 0
               THEN StrV(Strip(PyStr(question_info)))
               ELSE StrV(<<"Q","u","e","s","t","i","o","n"," ">> \o IntStr(question_number)
                         \o <<" ","d","a","t","a"," ","f","r","o","m"," ","r","o","w"," ">> \o IntStr(row))
       ELSE IF column_h_value # None
            THEN StrV(Strip(PyStr(column_h_value)))
            ELSE None

\* find_question_column_h_text, the loop from row on
RECURSIVE ScanColumnH(_, _, _)
ScanColumnH(ws, question_number, row) ==
    IF row > MaxRowOf(ws) THEN None
    ELSE LET cell_value == CellOf(ws, row, "G")
         IN IF cell_value # None
            THEN LET cell_str == Strip(PyStr(cell_value))
                 IN IF cell_str = TextSystem
                    THEN ScanColumnH(ws, question_number, row + 1)
                    ELSE IF cell_str = IntStr(question_number)
                         THEN ColumnHValueAt(ws, row, question_number)
                         ELSE ScanColumnH(ws, question_number, row + 1)
            ELSE ScanColumnH(ws, question_number, row + 1)

find_question_column_h_text_from_row_5(ws, question_number) ==
    ScanColumnH(ws, question_number, DataStartRow + 1)

find_question_column_h_text(ws, question_number) ==
    ScanColumnH(ws, question_number, DataStartRow)

\* find_section_number_from_data_map / find_question_text_from_data_map /
\* find_column_l_text_from_data_map: the value returned from the matching row
ColumnValueAt(ws, row, col) ==
    LET value == CellOf(ws, row, col)
    IN IF Truthy(value) THEN StrV(Strip(PyStr(value))) ELSE None

\* the loop shared by the three lookups, from row on
RECURSIVE ScanColumn(_, _, _, _)
ScanColumn(ws, question_number, col, row) ==
    IF row > MaxRowOf(ws) THEN None
    ELSE IF MarkerMatches(ws, row, question_number)
         THEN ColumnValueAt(ws, row, col)
         ELSE ScanColumn(ws, question_number, col, row + 1)

find_section_number_from_data_map(ws, question_number) ==
    ScanColumn(ws, question_number, "N", DataStartRow)

find_question_text_from_data_map(ws, question_number) ==
    ScanColumn(ws, question_number, "C", DataStartRow)

find_column_l_text_from_data_map(ws, question_number) ==
    ScanColumn(ws, question_number, "L", DataStartRow)

----------------------------------------------------------------------------
(* Question sheets and extract_response_options *)

\* A question sheet maps the cells that hold a value, <<row, column>>, to
\* their values; columns are numbered A = 1, B = 2, ...
EmptySheet == [cell \in {} |-> None]

HasCell(ws, row, col) == <<row, col>> \in DOMAIN ws

\* question_ws.cell(row, col).value
ValueAt(ws, row, col) == IF HasCell(ws, row, col) THEN ws[<<row, col>>] ELSE None

\* the writes of `cells` applied to the sheet ws
Write(ws, cells) == cells @@ ws

MinOf(S) == CHOOSE p \in S : \A p2 \in S : p <= p2

\* s.replace(old, new): every non-overlapping occurrence, left to right
RECURSIVE Replace(_, _, _)
Replace(s, old, new) ==
    LET hits == {p \in 1..(Len(s) - Len(old) + 1) :
                    \A k \in 1..Len(old) : s[p + k - 1] = old[k]}
    IN IF hits = {} THEN s
       ELSE LET p == MinOf(hits)
            IN SubSeq(s, 1, p - 1) \o new
               \o Replace(SubSeq(s, p + Len(old), Len(s)), old, new)

TextSelectOption == <<"S","e","l","e","c","t"," ","O","p","t","i","o","n"," ">>
TextSentinel == <<"<", ">">>
TextRecord == <<"r","e","c","o","r","d">>

FirstOptionRow == 6     \* current_row = 6: the first output row of the table

\* step 2: the rows >= row whose column P, trimmed, equals target_pattern,
\* in increasing row order
RECURSIVE CollectResponseRows_newest_first(_, _, _)
CollectResponseRows_newest_first(ws, target_pattern, row) ==
    IF row > MaxRowOf(ws) THEN <<>>
    ELSE LET column_p_value == CellOf(ws, row, "P")
         IN IF Truthy(column_p_value)
               /\ Strip(PyStr(column_p_value)) = target_pattern
            THEN CollectResponseRows_newest_first(ws, target_pattern, row + 1) \o <<row>>
            ELSE CollectResponseRows_newest_first(ws, target_pattern, row + 1)

RECURSIVE CollectResponseRows(_, _, _)
CollectResponseRows(ws, target_pattern, row) ==
    IF row > MaxRowOf(ws) THEN <<>>
    ELSE LET column_p_value == CellOf(ws, row, "P")
         IN IF Truthy(column_p_value)
               /\ Strip(PyStr(column_p_value)) = target_pattern
            THEN <<row>> \o CollectResponseRows(ws, target_pattern, row + 1)
            ELSE CollectResponseRows(ws, target_pattern, row + 1)

\* step 3: code to column G and label to column C, one output row per
\* response row, each written only when it is not None
OptionCells(ws, response_rows) ==
    LET coded == {k \in 1..Len(response_rows) : CellOf(ws, response_rows[k], "D") # None}
        labelled == {k \in 1..Len(response_rows) : CellOf(ws, response_rows[k], "E") # None}
    IN [cell \in {<<FirstOptionRow - 1 + k, 7>> : k \in coded}
                 \cup {<<FirstOptionRow - 1 + k, 3>> : k \in labelled} |->
          IF cell[2] = 7
          THEN CellOf(ws, response_rows[cell[1] - (FirstOptionRow - 1)], "D")
          ELSE CellOf(ws, response_rows[cell[1] - (FirstOptionRow - 1)], "E")]

\* step 4: the "<>" terminator in columns G and C of current_row
SentinelCellsColumnG(current_row) ==
    [cell \in {<<current_row, 7>>} |-> StrV(TextSentinel)]

SentinelCells(current_row) ==
    [cell \in {<<current_row, 7>>, <<current_row, 3>>} |-> StrV(TextSentinel)]

\* step 5: the COUNTIFS template of D6
CountFormula ==
    <<"=","C","O","U","N","T","I","F","S","(","O","F","F","S","E","T","(",
      "'","r","a","w"," ","d","a","t","a","'","!","$","C","$","3",":","$",
      "C","$","5","0","2",","," ","0",","," ","M","A","T","C","H","(","$",
      "G","$","4",","," ","'","r","a","w"," ","d","a","t","a","'","!","$",
      "C","$","2",":","$","A","J","C","$","2",","," ","0",")","-","1",")",
      ","," ","$","G","6",","," ","O","F","F","S","E","T","(","'","r","a",
      "w"," ","d","a","t","a","'","!","$","C","$","3",":","$","C","$","5",
      "0","2",","," ","0",","," ","M","A","T","C","H","(","$","I","6",",",
      " ","'","r","a","w"," ","d","a","t","a","'","!","$","C","$","2",":",
      "$","A","J","C","$","2",","," ","0",")","-","1",")",","," ","$","J",
      "6",","," ","O","F","F","S","E","T","(","'","r","a","w"," ","d","a",
      "t","a","'","!","$","C","$","3",":","$","C","$","5","0","2",","," ",
      "0",","," ","M","A","T","C","H","(","$","K","6",","," ","'","r","a",
      "w"," ","d","a","t","a","'","!","$","C","$","2",":","$","A","J","C",
      "$","2",","," ","0",")","-","1",")",","," ","$","L","6",","," ","O",
      "F","F","S","E","T","(","'","r","a","w"," ","d","a","t","a","'","!",
      "$","C","$","3",":","$","C","$","5","0","2",","," ","0",","," ","M",
      "A","T","C","H","(","$","M","6",","," ","'","r","a","w"," ","d","a",
      "t","a","'","!","$","C","$","2",":","$","A","J","C","$","2",","," ",
      "0",")","-","1",")",","," ","$","N","6",")">>

\* the template adjusted to formula_row by the chain of replace() calls
count_formula(formula_row) ==
    LET r == IntStr(formula_row)
        s1 == Replace(CountFormula, <<"$","G","6">>, <<"$","G">> \o r)
        s2 == Replace(s1, <<"$","I","6">>, <<"$","I">> \o r)
        s3 == Replace(s2, <<"$","J","6">>, <<"$","J">> \o r)
        s4 == Replace(s3, <<"$","K","6">>, <<"$","K">> \o r)
        s5 == Replace(s4, <<"$","L","6">>, <<"$","L">> \o r)
        s6 == Replace(s5, <<"$","M","6">>, <<"$","M">> \o r)
    IN Replace(s6, <<"$","N","6">>, <<"$","N">> \o r)

CountCells(current_row) ==
    [cell \in {<<r, 4>> : r \in FirstOptionRow..current_row} |->
        StrV(count_formula(cell[1]))]

\* step 6: "record" / "<>" filler in columns I..N
pattern_values ==
    <<TextRecord, TextSentinel, TextRecord, TextSentinel, TextRecord, TextSentinel>>

FillerCells(current_row) ==
    [cell \in {<<r, 9 + col_index>> : r \in FirstOptionRow..current_row,
                                      col_index \in 0..5} |->
        StrV(pattern_values[cell[2] - 9 + 1])]

\* step 7: f"=D{row_num}/$D${denominator_row}"
percentage_formula_own_row(row_num, denominator_row) ==
    <<"=", "D">> \o IntStr(row_num) \o <<"/", "$", "D", "$">> \o IntStr(row_num)

percentage_formula(row_num, denominator_row) ==
    <<"=", "D">> \o IntStr(row_num) \o <<"/", "$", "D", "$">> \o IntStr(denominator_row)

PercentageCells(current_row) ==
    [cell \in {<<r, 5>> : r \in FirstOptionRow..current_row} |->
        StrV(percentage_formula(cell[1], current_row))]

\* steps 3-7 for a non-empty list of response rows
WriteOptionTable(data_map_ws, question_ws, response_rows) ==
    LET current_row == FirstOptionRow + Len(response_rows)
        w3 == Write(question_ws, OptionCells(data_map_ws, response_rows))
        w4 == Write(w3, SentinelCells(current_row))
        w5 == Write(w4, CountCells(current_row))
        w6 == Write(w5, FillerCells(current_row))
    IN Write(w6, PercentageCells(current_row))

\* extract_response_options(data_map_ws, question_ws, question_number): the
\* question sheet it leaves
extract_response_options_always_writes(data_map_ws, question_ws, question_number) ==
    LET section_number == find_section_number_from_data_map(data_map_ws, question_number)
        target_pattern == TextSelectOption
                          \o (IF Truthy(section_number) THEN section_number.s ELSE <<>>)
    IN WriteOptionTable(data_map_ws, question_ws,
                        CollectResponseRows(data_map_ws, target_pattern, DataStartRow))

extract_response_options(data_map_ws, question_ws, question_number) ==
    LET section_number == find_section_number_from_data_map(data_map_ws, question_number)
    IN IF ~Truthy(section_number) THEN question_ws
       ELSE LET target_pattern == TextSelectOption \o section_number.s
                response_rows ==
                    CollectResponseRows(data_map_ws, target_pattern, DataStartRow)
            IN IF Len(response_rows) = 0 THEN question_ws
               ELSE WriteOptionTable(data_map_ws, question_ws, response_rows)

----------------------------------------------------------------------------
(* Header cells of a question tab (formatters/worksheet.py) *)

\* add_question_text_and_section_header: C2 and G4; data_map_ws is the
\* 'data map' sheet when has_data_map
add_question_text_and_section_header(question_ws, question_number, has_data_map, data_map_ws) ==
    IF has_data_map
    THEN LET question_text ==
                 find_question_text_from_data_map(data_map_ws, question_number)
             column_l_text ==
                 find_column_l_text_from_data_map(data_map_ws, question_number)
             c2 == IF Truthy(question_text) THEN question_text
                   ELSE StrV(<<"Q","u","e","s","t","i","o","n"," ">> \o IntStr(question_number)
                             \o <<" ","t","e","x","t"," ","n","o","t"," ","f","o","u","n","d">>)
             g4 == IF Truthy(column_l_text) THEN column_l_text
                   ELSE StrV(<<"C","o","l","u","m","n"," ","L"," ","t","e","x","t"," ","n","o","t"," ","f","o","u","n","d"," ","f","o","r"," ","q","u","e","s","t","i","o","n"," ">>
                             \o IntStr(question_number))
         IN Write(question_ws, (<<2, 3>> :> c2) @@ (<<4, 7>> :> g4))
    ELSE Write(question_ws,
               (<<2, 3>> :> StrV(<<"Q","u","e","s","t","i","o","n"," ">> \o IntStr(question_number)
                                 \o <<" ","-"," ","d","a","t","a"," ","m","a","p"," ","n","o","t"," ","a","v","a","i","l","a","b","l","e">>))
               @@ (<<4, 7>> :> StrV(<<"D","a","t","a"," ","m","a","p"," ","n","o","t"," ","a","v","a","i","l","a","b","l","e">>)))

\* add_row4_headers: C4, D4, E4 and I4..N4
add_row4_headers(question_ws) ==
    Write(question_ws,
          (<<4, 3>> :> StrV(<<"R","e","s","p","o","n","s","e"," ","T","e","x","t">>))
          @@ (<<4, 4>> :> StrV(<<"N">>))
          @@ (<<4, 5>> :> StrV(<<"%">>))
          @@ (<<4, 9>> :> StrV(<<"F","i","l","t","e","r"," ","C","o","l","u","m","n"," ","#","1">>))
          @@ (<<4, 10>> :> StrV(<<"F","i","l","t","e","r"," ","#","1">>))
          @@ (<<4, 11>> :> StrV(<<"F","i","l","t","e","r"," ","C","o","l","u","m","n"," ","#","2">>))
          @@ (<<4, 12>> :> StrV(<<"F","i","l","t","e","r"," ","#","2">>))
          @@ (<<4, 13>> :> StrV(<<"F","i","l","t","e","r"," ","C","o","l","u","m","n"," ","#","3">>))
          @@ (<<4, 14>> :> StrV(<<"F","i","l","t","e","r"," ","#","3">>)))

----------------------------------------------------------------------------
(* The question-type builders (question_types/) *)

MaxOf(S) == CHOOSE p \in S : \A p2 \in S : p >= p2

\* question_ws.max_row
max_row(question_ws) ==
    IF DOMAIN question_ws = {} THEN 1
    ELSE MaxOf({cell[1] : cell \in DOMAIN question_ws})

\* cell_value is not None and str(cell_value).strip()
NonBlank(cell_value) == cell_value # None /\ Len(Strip(PyStr(cell_value))) > 0

TextOtherSpecifyChild == <<"0",","," ","O","p","e","n"," ","T","e","x","t",","," ","0",","," ","0",","," ",","," ","0",","," ","0",","," ","0",","," ","0",","," ","O","t","h","e","r"," ","S","p","e","c","i","f","y"," ","C","h","i","l","d">>

\* find_other_specify_child_text, the loop from row on: the first row whose
\* marker and signature both match decides the result
RECURSIVE ScanOtherSpecifyChild(_, _, _)
ScanOtherSpecifyChild(ws, question_number, row) ==
    IF row > MaxRowOf(ws) THEN None
    ELSE LET column_g_value == CellOf(ws, row, "G")
             column_h_value == CellOf(ws, row, "H")
         IN IF /\ column_g_value # None
               /\ Strip(PyStr(column_g_value)) = IntStr(question_number)
               /\ column_h_value # None
               /\ Strip(PyStr(column_h_value)) = TextOtherSpecifyChild
            THEN ColumnValueAt(ws, row, "C")
            ELSE ScanOtherSpecifyChild(ws, question_number, row + 1)

find_other_specify_child_text(ws, question_number) ==
    ScanOtherSpecifyChild(ws, question_number, DataStartRow)

\* the end of the run of characters other than "]" that starts at i
RECURSIVE BracketRunEnd(_, _)
BracketRunEnd(s, i) ==
    IF i <= Len(s) /\ s[i] # "]" THEN BracketRunEnd(s, i + 1) ELSE i

\* re.search(r'\[([^\]]+)\]', text) from position i on: group 1 of the
\* leftmost match, <<>> when there is none
RECURSIVE SearchBracketed(_, _)
SearchBracketed(text, i) ==
    IF i > Len(text) THEN <<>>
    ELSE LET e == BracketRunEnd(text, i + 1)
         IN IF text[i] = "[" /\ e > i + 1 /\ e <= Len(text)
            THEN SubSeq(text, i + 1, e - 1)
            ELSE SearchBracketed(text, i + 1)

\* extract_bracketed_text(text): None when nothing is bracketed
extract_bracketed_text_whole_match(text) ==
    LET inside == SearchBracketed(text, 1)
    IN IF Len(inside) > 0 THEN StrV(<<"[">> \o inside \o <<"]">>) ELSE None

extract_bracketed_text(text) ==
    LET inside == SearchBracketed(text, 1)
    IN IF Len(inside) > 0 THEN StrV(inside) ELSE None

\* the text stored in Q6: the FILTER formula behind a leading quote mark
filter_formula ==
    <<"'","=","F","I","L","T","E","R","(","O","F","F","S","E","T","(",
         "'","r","a","w"," ","d","a","t","a","'","!","$","C","$","3",":",
         "$","C","$","5","0","2",","," ","0",","," ","M","A","T","C","H",
         "(","$","Q","$","4",","," ","'","r","a","w"," ","d","a","t","a",
         "'","!","$","C","$","2",":","$","A","J","C","$","2",","," ","0",
         ")","-","1",")",","," ","(","O","F","F","S","E","T","(","'","r",
         "a","w"," ","d","a","t","a","'","!","$","C","$","3",":","$","C",
         "$","5","0","2",","," ","0",","," ","M","A","T","C","H","(","$",
         "Q","$","4",","," ","'","r","a","w"," ","d","a","t","a","'","!",
         "$","C","$","2",":","$","A","J","C","$","2",","," ","0",")","-",
         "1",")","<",">","\"","\"",")"," ","*"," ","(","I","F","(","$","J",
         "$","6","=","\"","<",">","\"",","," ","T","R","U","E",","," ","O",
         "F","F","S","E","T","(","'","r","a","w"," ","d","a","t","a","'",
         "!","$","C","$","3",":","$","C","$","5","0","2",","," ","0",",",
         " ","M","A","T","C","H","(","$","I","$","6",","," ","'","r","a",
         "w"," ","d","a","t","a","'","!","$","C","$","2",":","$","A","J",
         "C","$","2",","," ","0",")","-","1",")","=","$","J","$","6",")",
         ")"," ","*"," ","(","I","F","(","$","L","$","6","=","\"","<",">",
         "\"",","," ","T","R","U","E",","," ","O","F","F","S","E","T","(",
         "'","r","a","w"," ","d","a","t","a","'","!","$","C","$","3",":",
         "$","C","$","5","0","2",","," ","0",","," ","M","A","T","C","H",
         "(","$","K","$","6",","," ","'","r","a","w"," ","d","a","t","a",
         "'","!","$","C","$","2",":","$","A","J","C","$","2",","," ","0",
         ")","-","1",")","=","$","L","$","6",")",")"," ","*"," ","(","I",
         "F","(","$","N","$","6","=","\"","<",">","\"",","," ","T","R","U",
         "E",","," ","O","F","F","S","E","T","(","'","r","a","w"," ","d",
         "a","t","a","'","!","$","C","$","3",":","$","C","$","5","0","2",
         ","," ","0",","," ","M","A","T","C","H","(","$","M","$","6",",",
         " ","'","r","a","w"," ","d","a","t","a","'","!","$","C","$","2",
         ":","$","A","J","C","$","2",","," ","0",")","-","1",")","=","$",
         "N","$","6",")",")",")">>

\* the "Other Specify Child" cells Q2, Q4 and Q6 (lines 66-84)
OtherSpecifyCells_live(data_map_ws, question_number) ==
    LET other_child_text == find_other_specify_child_text(data_map_ws, question_number)
    IN IF ~Truthy(other_child_text) THEN EmptySheet
       ELSE LET bracketed_text == extract_bracketed_text(other_child_text.s)
            IN IF ~Truthy(bracketed_text) THEN (<<2, 17>> :> other_child_text)
               ELSE (<<2, 17>> :> other_child_text)
                    @@ (<<4, 17>> :> bracketed_text)
                    @@ (<<6, 17>> :> StrV(Tail(filter_formula)))

OtherSpecifyCells(data_map_ws, question_number) ==
    LET other_child_text == find_other_specify_child_text(data_map_ws, question_number)
    IN IF ~Truthy(other_child_text) THEN EmptySheet
       ELSE LET bracketed_text == extract_bracketed_text(other_child_text.s)
            IN IF ~Truthy(bracketed_text) THEN (<<2, 17>> :> other_child_text)
               ELSE (<<2, 17>> :> other_child_text)
                    @@ (<<4, 17>> :> bracketed_text)
                    @@ (<<6, 17>> :> StrV(filter_formula))

\* add_cross_cut_section: the row it returns
last_row_with_text(question_ws) ==
    LET rows == {row \in 6..max_row(question_ws) : NonBlank(ValueAt(question_ws, row, 3))}
    IN IF rows = {} THEN 6 ELSE MaxOf(rows)

new_section_row(question_ws) == last_row_with_text(question_ws) + 2

\* add_cross_cut_section: the sheet it leaves
add_cross_cut_section(question_ws) ==
    Write(question_ws,
          (<<new_section_row(question_ws), 2>> :> StrV(<<"x">>))
          @@ (<<new_section_row(question_ws), 3>> :> StrV(<<"C","r","o","s","s"," ","C","u","t">>)))

\* lines 92-117: the labels and filter values below the section header
CrossCutLabelCells(cross_cut_row) ==
    (<<cross_cut_row + 2, 3>> :> StrV(<<"F","i","l","t","e","r"," ","Q"," ","#","1">>))
    @@ (<<cross_cut_row + 3, 3>> :> StrV(<<"F","i","l","t","e","r"," ","C","o","l","u","m","n"," ","#","1">>))
    @@ (<<cross_cut_row + 4, 3>> :> StrV(<<"F","i","l","t","e","r"," ","#","1">>))
    @@ (<<cross_cut_row + 5, 3>> :> StrV(<<"F","i","l","t","e","r"," ","Q"," ","#","2">>))
    @@ (<<cross_cut_row + 6, 3>> :> StrV(<<"F","i","l","t","e","r"," ","C","o","l","u","m","n"," ","#","2">>))
    @@ (<<cross_cut_row + 7, 3>> :> StrV(<<"F","i","l","t","e","r"," ","#","2">>))
    @@ (<<cross_cut_row + 3, 4>> :> StrV(TextRecord))
    @@ (<<cross_cut_row + 4, 4>> :> StrV(TextSentinel))
    @@ (<<cross_cut_row + 6, 4>> :> StrV(TextRecord))
    @@ (<<cross_cut_row + 7, 4>> :> StrV(TextSentinel))
    @@ (<<cross_cut_row + 9, 3>> :> StrV(<<"H","u","m","R","e","a","d"," ","F","i","l","t","e","r"," ","#","1">>))
    @@ (<<cross_cut_row + 10, 3>> :> StrV(<<"H","u","m","R","e","a","d"," ","F","i","l","t","e","r"," ","#","2">>))
    @@ (<<cross_cut_row + 12, 3>> :> StrV(<<"=","C","6">>))

\* filter_q_1_formula / filter_q_2_formula
filter_q_formula(filter_col_row) ==
    <<"=","I","F","(","D","$">>
    \o IntStr(filter_col_row)
    \o <<"=","\"","r","e","c","o","r","d","\"",","," ","\"","N","o"," ","f",
         "i","l","t","e","r","\"",","," ","O","F","F","S","E","T","(","'",
         "d","a","t","a"," ","m","a","p","'","!","$","C","$","2",","," ",
         "M","A","T","C","H","(","D","$">>
    \o IntStr(filter_col_row)
    \o <<","," ","'","d","a","t","a"," ","m","a","p","'","!","$","L","$",
         "2",":","$","L","$","3","2","0","0",","," ","0",")","-","1",",",
         " ","0",")",")">>

\* first_header_formula / second_header_formula
header_formula(filter_row, filter_col_row) ==
    <<"=","I","F","(","D","$">>
    \o IntStr(filter_row)
    \o <<"=","\"","<",">","\"",","," ","\"","N","o"," ","f","i","l","t","e",
         "r","\"",","," ","O","F","F","S","E","T","(","'","d","a","t","a",
         " ","m","a","p","'","!","$","E","$","2",","," ","M","A","T","C",
         "H","(","D","$">>
    \o IntStr(filter_col_row)
    \o <<","," ","'","d","a","t","a"," ","m","a","p","'","!","$","L","$",
         "2",":","$","L","$","3","2","0","0",","," ","0",")","+","D","$">>
    \o IntStr(filter_row)
    \o <<",","0",")",")">>

\* countifs_formula (reference_row = 6) and countifs_formula_dragged
countifs_formula(reference_row, filter_col_1_row, filter_1_row, filter_col_2_row, filter_2_row) ==
    <<"=","C","O","U","N","T","I","F","S","(","O","F","F","S","E","T",
         "(","'","r","a","w"," ","d","a","t","a","'","!","$","C","$","3",
         ":","$","C","$","5","0","2",","," ","0",","," ","M","A","T","C",
         "H","(","$","G","$","4",","," ","'","r","a","w"," ","d","a","t",
         "a","'","!","$","C","$","2",":","$","A","J","C","$","2",","," ",
         "0",")","-","1",")",","," ","$","G">>
    \o IntStr(reference_row)
    \o <<","," ","O","F","F","S","E","T","(","'","r","a","w"," ","d","a",
         "t","a","'","!","$","C","$","3",":","$","C","$","5","0","2",",",
         " ","0",","," ","M","A","T","C","H","(","D","$">>
    \o IntStr(filter_col_1_row)
    \o <<","," ","'","r","a","w"," ","d","a","t","a","'","!","$","C","$",
         "2",":","$","A","J","C","$","2",","," ","0",")","-","1",")",",",
         " ","D","$">>
    \o IntStr(filter_1_row)
    \o <<","," ","O","F","F","S","E","T","(","'","r","a","w"," ","d","a",
         "t","a","'","!","$","C","$","3",":","$","C","$","5","0","2",",",
         " ","0",","," ","M","A","T","C","H","(","D","$">>
    \o IntStr(filter_col_2_row)
    \o <<","," ","'","r","a","w"," ","d","a","t","a","'","!","$","C","$",
         "2",":","$","A","J","C","$","2",","," ","0",")","-","1",")",",",
         " ","D","$">>
    \o IntStr(filter_2_row)
    \o <<")">>

\* lines 134-155: the column-D formulas of the section
CrossCutFormulaCells(cross_cut_row) ==
    (<<cross_cut_row + 2, 4>> :> StrV(filter_q_formula(cross_cut_row + 3)))
    @@ (<<cross_cut_row + 5, 4>> :> StrV(filter_q_formula(cross_cut_row + 6)))
    @@ (<<cross_cut_row + 9, 4>> :>
            StrV(header_formula(cross_cut_row + 4, cross_cut_row + 3)))
    @@ (<<cross_cut_row + 10, 4>> :>
            StrV(header_formula(cross_cut_row + 7, cross_cut_row + 6)))
    @@ (<<cross_cut_row + 12, 4>> :>
            StrV(countifs_formula(6, cross_cut_row + 3, cross_cut_row + 4,
                                  cross_cut_row + 6, cross_cut_row + 7)))

\* lines 159-165: the non-blank cells of column C counted from row on, the
\* count stopping with the first "<>"
RECURSIVE CountOptionRows(_, _, _)
CountOptionRows(question_ws, row, last_row) ==
    IF row > last_row THEN 0
    ELSE LET cell_value == ValueAt(question_ws, row, 3)
         IN IF NonBlank(cell_value)
            THEN IF Strip(PyStr(cell_value)) = TextSentinel THEN 1
                 ELSE 1 + CountOptionRows(question_ws, row + 1, last_row)
            ELSE CountOptionRows(question_ws, row + 1, last_row)

response_option_count(question_ws) ==
    CountOptionRows(question_ws, 6, max_row(question_ws))

\* lines 169-177: =C<6+i> and the COUNTIFS formula, one row per counted row
DragDownCells(cross_cut_row, count) ==
    [cell \in {<<cross_cut_row + 12 + i, col>> : i \in 0..(count - 1), col \in {3, 4}} |->
        LET reference_row == 6 + (cell[1] - (cross_cut_row + 12))
        IN IF cell[2] = 3 THEN StrV(<<"=","C">> \o IntStr(reference_row))
           ELSE StrV(countifs_formula(reference_row, cross_cut_row + 3, cross_cut_row + 4,
                                      cross_cut_row + 6, cross_cut_row + 7))]

\* the value a column-D cell is given in column col_num (lines 193-230)
DraggedValue(source_value, col_num) ==
    IF Truthy(source_value) /\ source_value.t = "str" /\ source_value.s[1] = "="
    THEN StrV(RenderAcross(source_value.s, col_num - 4))
    ELSE source_value

\* lines 184-230: column D of start_drag_row..end_drag_row copied into E..N
DragAcrossCells(question_ws, start_drag_row, end_drag_row) ==
    [cell \in {<<row_num, col_num>> : row_num \in {r \in start_drag_row..end_drag_row :
                                                       ValueAt(question_ws, r, 4) # None},
                                      col_num \in 5..14} |->
        DraggedValue(ValueAt(question_ws, cell[1], 4), cell[2])]

\* lines 89-232: the Cross Cut section
cross_cut_section(question_ws) ==
    LET cross_cut_row == new_section_row(question_ws)
        formula_row == cross_cut_row + 12
        w1 == add_cross_cut_section(question_ws)
        w2 == Write(w1, CrossCutLabelCells(cross_cut_row))
        w3 == Write(w2, CrossCutFormulaCells(cross_cut_row))
        count == response_option_count(w3)
    IN IF count > 0
       THEN LET w4 == Write(w3, DragDownCells(cross_cut_row, count))
            IN Write(w4, DragAcrossCells(w4, cross_cut_row + 2, formula_row + count - 1))
       ELSE w3

\* lines 49-59: the marker cells and the headers
WithOtherHeaders(question_ws, question_number, has_data_map, data_map_ws) ==
    LET w1 == Write(question_ws, (<<2, 2>> :> StrV(<<"x">>)) @@ (<<2, 16>> :> StrV(<<"x">>)))
        w2 == add_question_text_and_section_header(w1, question_number,
                                                   has_data_map, data_map_ws)
    IN add_row4_headers(w2)

\* lines 61-86: the option table and the "Other Specify Child" cells
WithOtherOptions(question_ws, question_number, has_data_map, data_map_ws) ==
    IF has_data_map
    THEN Write(extract_response_options(data_map_ws, question_ws, question_number),
               OtherSpecifyCells(data_map_ws, question_number))
    ELSE question_ws

\* cut_single_select_with_other(question_ws, question_number, workbook): the
\* question sheet it leaves
cut_single_select_with_other(question_ws, question_number, has_data_map, data_map_ws) ==
    cross_cut_section(
        WithOtherOptions(
            WithOtherHeaders(question_ws, question_number, has_data_map, data_map_ws),
            question_number, has_data_map, data_map_ws))

\* cut_single_select (survey_processor4.py lines 1145-1246; the module
\* question_types/single_select.py that pipeline.py imports it from is not
\* part of the sources): the header cells and the option table, without the
\* "other specify" cells.  Lines 1171-1217: B2, C2, G4 and the headers of row 4
SingleSelectHeaders(question_ws, question_number, has_data_map, data_map_ws) ==
    LET w1 == Write(question_ws, (<<2, 2>> :> StrV(<<"x">>)))
        w2 == add_question_text_and_section_header(w1, question_number,
                                                   has_data_map, data_map_ws)
    IN add_row4_headers(w2)

\* lines 1225-1228: the option table
SingleSelectOptions(question_ws, question_number, has_data_map, data_map_ws) ==
    IF has_data_map
    THEN extract_response_options(data_map_ws, question_ws, question_number)
    ELSE question_ws

\* the builder returns after the option table and the alignment (lines
\* 1225-1242)
cut_single_select(question_ws, question_number, has_data_map, data_map_ws) ==
    SingleSelectOptions(
        SingleSelectHeaders(question_ws, question_number, has_data_map, data_map_ws),
        question_number, has_data_map, data_map_ws)

----------------------------------------------------------------------------
(* create_question_tabs and process_excel_file (pipeline.py) *)

NumQuestions == 10      \* for i in range(1, 11)

\* tab_name = f"Q{i}"
tab_name(i) == <<"Q">> \o IntStr(i)

TextWithOther == <<"0",","," ","0",","," ","0",","," ","S","i","m","p","l","e"," ","S","e","l","e","c","t",","," ",","," ","0",","," ","0",","," ","0",","," ","0",","," ","O","t","h","e","r"," ","S","p","e","c","i","f","y"," ","P","a","r","e","n","t">>
TextSimpleSelect == <<"0",","," ","0",","," ","0",","," ","S","i","m","p","l","e"," ","S","e","l","e","c","t",","," ",","," ","0",","," ","0",","," ","0",","," ","0",","," ","0">>

\* lines 135-140: the builder a signature is handed to
dispatch_default_single_select(column_h_text) ==
    IF column_h_text = TextWithOther THEN "cut_single_select_with_other"
    ELSE "cut_single_select"

dispatch(column_h_text) ==
    IF column_h_text = TextWithOther THEN "cut_single_select_with_other"
    ELSE IF column_h_text = TextSimpleSelect THEN "cut_single_select"
    ELSE "none"

\* lines 116-119: the workbook without the tab of that name
RemoveNothing(worksheets, i) == worksheets

RemoveExisting(worksheets, i) ==
    SelectSeq(worksheets, LAMBDA ws : ws.title # tab_name(i))

\* lines 124-146: A1 and A2 of the new tab
TabHeader(i, has_data_map, data_map_ws) ==
    LET a1 == (<<1, 1>> :> IntV(i))
    IN IF has_data_map
       THEN LET column_h_text == find_question_column_h_text(data_map_ws, i)
            IN IF Truthy(column_h_text)
               THEN a1 @@ (<<2, 1>> :> column_h_text)
               ELSE a1 @@ (<<2, 1>> :> StrV(<<"N","o"," ","d","a","t","a"," ","f","o","u","n","d"," ","f","o","r"," ","q","u","e","s","t","i","o","n"," ">> \o IntStr(i)))
       ELSE a1 @@ (<<2, 1>> :> StrV(<<"D","a","t","a"," ","m","a","p"," ","n","o","t"," ","a","v","a","i","l","a","b","l","e">>))

\* the builder slot i is handed to, "none" when no builder is called
BuilderOf(i, has_data_map, data_map_ws) ==
    IF has_data_map /\ Truthy(find_question_column_h_text(data_map_ws, i))
    THEN dispatch(find_question_column_h_text(data_map_ws, i).s)
    ELSE "none"

\* the tab as the builder leaves it when it returns
Build(builder, question_ws, i, has_data_map, data_map_ws) ==
    CASE builder = "cut_single_select_with_other" ->
             cut_single_select_with_other(question_ws, i, has_data_map, data_map_ws)
      [] builder = "cut_single_select" ->
             cut_single_select(question_ws, i, has_data_map, data_map_ws)
      [] OTHER -> question_ws

\* the tab as the builder leaves it when a call raises after `stage` of its
\* steps: none, the headers, the headers and the option table
PartialBuild(builder, stage, question_ws, i, has_data_map, data_map_ws) ==
    CASE stage = 0 -> question_ws
      [] stage = 1 /\ builder = "cut_single_select_with_other" ->
             WithOtherHeaders(question_ws, i, has_data_map, data_map_ws)
      [] stage = 1 /\ builder = "cut_single_select" ->
             SingleSelectHeaders(question_ws, i, has_data_map, data_map_ws)
      [] stage = 2 /\ builder = "cut_single_select_with_other" ->
             WithOtherOptions(
                 WithOtherHeaders(question_ws, i, has_data_map, data_map_ws),
                 i, has_data_map, data_map_ws)
      [] stage = 2 /\ builder = "cut_single_select" ->
             SingleSelectOptions(
                 SingleSelectHeaders(question_ws, i, has_data_map, data_map_ws),
                 i, has_data_map, data_map_ws)

\* openpyxl.load_workbook(output_path, data_only=True) of a file Excel has
\* not calculated: the formula columns G..AG of the data map read as None
Uncached(file_map) ==
    [k \in DOMAIN file_map |->
        [file_map[k] EXCEPT !.G = None, !.H = None, !.L = None,
                            !.N = None, !.P = None]]

\* the except clauses: what each does with an exception that reaches it
save_processed_excel_except == "reraise"
question_cutting_processor_except == "reraise"
create_question_tabs_swallows == "swallow"
create_question_tabs_except == "reraise"
process_excel_file_except == "reraise"
calculate_excel_formulas_reraises == "reraise"
calculate_excel_formulas_except == "swallow"
cut_single_select_with_other_except == "reraise"
cut_single_select_except == "reraise"
load_raw_excel_file_except == "reraise"
initial_set_up_except == "reraise"
raw_data_initial_setup_except == "reraise"
data_map_initial_setup_except == "reraise"
column_question_map_initial_setup_except == "reraise"
\* data_map_extractor.py lines 171-173: the error is logged and None returned
find_question_column_h_text_except == "swallow"

ExceptHandler(frame) ==
    CASE frame = "save_processed_excel" -> save_processed_excel_except
      [] frame = "question_cutting_processor" -> question_cutting_processor_except
      [] frame = "create_question_tabs" -> create_question_tabs_except
      [] frame = "process_excel_file" -> process_excel_file_except
      [] frame = "calculate_excel_formulas" -> calculate_excel_formulas_except
      [] frame = "cut_single_select_with_other" -> cut_single_select_with_other_except
      [] frame = "cut_single_select" -> cut_single_select_except
      [] frame = "load_raw_excel_file" -> load_raw_excel_file_except
      [] frame = "initial_set_up" -> initial_set_up_except
      [] frame = "raw_data_initial_setup" -> raw_data_initial_setup_except
      [] frame = "data_map_initial_setup" -> data_map_initial_setup_except
      [] frame = "column_question_map_initial_setup" ->
             column_question_map_initial_setup_except
      [] frame = "find_question_column_h_text" -> find_question_column_h_text_except

\* the statement after the call of `frame`, as seen from statement at
AfterReturn(frame, at, i) ==
    CASE frame = "save_processed_excel" ->
             (CASE at = "save_formulas" -> "save"
                [] at = "save" -> "calculate"
                [] at = "final_save" -> "done")
      [] frame = "calculate_excel_formulas" -> "reload"
      [] frame \in {"cut_single_select_with_other", "cut_single_select"} ->
             IF i = NumQuestions THEN "final_save" ELSE "tabs"
      [] frame \in {"create_question_tabs", "question_cutting_processor"} -> "final_save"
      [] frame = "process_excel_file" -> "done"
      [] frame = "load_raw_excel_file" -> "initial_set_up"
      [] frame = "initial_set_up" -> "raw_data_setup"
      [] frame = "raw_data_initial_setup" -> "data_map_setup"
      [] frame = "data_map_initial_setup" -> "cqm_setup"
      [] frame = "column_question_map_initial_setup" -> "save_formulas"
      [] frame = "find_question_column_h_text" ->
             IF i = NumQuestions THEN "final_save" ELSE "tabs"

VersionIdle ==
    /\ vfDir = FALSE
    /\ vfExisting = {}
    /\ vfVersion = 0
    /\ vfPc = "idle"
    /\ vfResult = 0

MarkerIdle ==
    /\ smHeaders = <<>>
    /\ smG = <<>>
    /\ smE = <<>>
    /\ smPc = "idle"

PipelineIdle ==
    /\ inFile = [exists |-> FALSE, suffix |-> <<>>, sheets |-> <<>>]
    /\ exitCode = -1
    /\ printed = <<>>
    /\ exc = <<>>
    /\ pc = "idle"
    /\ slot = 0
    /\ raising = FALSE
    /\ frames = <<>>
    /\ faultAt = 0
    /\ caught = {}
    /\ win32 = FALSE
    /\ hasDataMap = FALSE
    /\ fileMap = <<>>
    /\ dataMap = <<>>
    /\ sheets = <<>>
    /\ disk = [formulas |-> "absent", output |-> "absent"]
    /\ calcResult = "not_run"
    /\ dispatched = <<>>

LookupIdle ==
    /\ lkMap = <<>>
    /\ lkQ = 0
    /\ lkH = <<>>
    /\ lkN = <<>>

ExtractIdle ==
    /\ exMap = <<>>
    /\ exQ = 0
    /\ exSheet = EmptySheet
    /\ exState = "idle"
    /\ exRaw = EmptySheet
    /\ exCounts = <<>>

RenderIdle ==
    /\ rnParts = <<>>
    /\ rnDir = "idle"
    /\ rnOffset = 0
    /\ rnOut = <<>>

----------------------------------------------------------------------------
(* Templates as they are written: literal text and reference tokens *)

Lit(chars) == [kind |-> "lit", text |-> chars]

Tok(colAbs, col, rowAbs, row) ==
    [kind |-> "ref", colAbs |-> colAbs, col |-> col, rowAbs |-> rowAbs, row |-> row]

PartText(p) ==
    IF p.kind = "lit" THEN p.text
    ELSE (IF p.colAbs THEN <<"$">> ELSE <<>>) \o p.col
         \o (IF p.rowAbs THEN <<"$">> ELSE <<>>) \o IntStr(p.row)

RECURSIVE PartsText(_)
PartsText(ps) ==
    IF Len(ps) = 0 THEN <<>> ELSE PartText(Head(ps)) \o PartsText(Tail(ps))

Join(ts) ==
    [k \in 1..(2 * Len(ts)) |->
        IF k = 1 THEN Lit(<<"=">>)
        ELSE IF k % 2 = 0 THEN ts[k \div 2]
        ELSE Lit(<<"+">>)]

GenCols == {<<"D">>, <<"Z">>, <<"A","J","C">>}
GenRows == {4, 99}
GenTokens == {Tok(ca, c, ra, r) : ca \in BOOLEAN, c \in GenCols,
                                  ra \in BOOLEAN, r \in GenRows}
GenTemplates ==
    {Join(ts) : ts \in UNION {[1..n -> GenTokens] : n \in 1..MaxTokens}}

\* "=A1+$B$2"
ExampleRelAbs ==
    <<Lit(<<"=">>), Tok(FALSE, <<"A">>, FALSE, 1), Lit(<<"+">>),
      Tok(TRUE, <<"B">>, TRUE, 2)>>
\* "=D$16"
ExampleMixed == <<Lit(<<"=">>), Tok(FALSE, <<"D">>, TRUE, 16)>>
\* "=$G$4"
ExampleAbs == <<Lit(<<"=">>), Tok(TRUE, <<"G">>, TRUE, 4)>>
\* "=D16+D$16": a token without any `$` next to one with a `$` before its row
ExampleNoDollar ==
    <<Lit(<<"=">>), Tok(FALSE, <<"D">>, FALSE, 16), Lit(<<"+">>),
      Tok(FALSE, <<"D">>, TRUE, 16)>>
\* data_map.py N4: =COUNTIFS($M$4:M4, "Start")
TemplateN4 ==
    <<Lit(<<"=","C","O","U","N","T","I","F","S","(">>), Tok(TRUE, <<"M">>, TRUE, 4), Lit(<<":">>),
      Tok(FALSE, <<"M">>, FALSE, 4), Lit(<<","," ","\"","S","t","a","r","t","\"",")">>)>>
\* column_question_map.py F3:
\* =IFERROR(INDEX($H$3:$H$200, MATCH($E3, $G$3:$G$200, 0)), "System")
TemplateF3 ==
    <<Lit(<<"=","I","F","E","R","R","O","R","(","I","N","D","E","X","(">>), Tok(TRUE, <<"H">>, TRUE, 3), Lit(<<":">>),
      Tok(TRUE, <<"H">>, TRUE, 200), Lit(<<","," ","M","A","T","C","H","(">>),
      Tok(TRUE, <<"E">>, FALSE, 3), Lit(<<",", " ">>),
      Tok(TRUE, <<"G">>, TRUE, 3), Lit(<<":">>),
      Tok(TRUE, <<"G">>, TRUE, 200), Lit(<<","," ","0",")",")",","," ","\"","S","y","s","t","e","m","\"",")">>)>>
\* single_select_with_other.py filter_q_1_formula, cross_cut_row = 9:
\* =IF(D$12="record", "No filter", OFFSET('data map'!$C$2, MATCH(D$12, 'd
\* ata map'!$L$2:$L$3200, 0)-1, 0))
TemplateFilterQ1 ==
    <<Lit(<<"=","I","F","(">>), Tok(FALSE, <<"D">>, TRUE, 12),
      Lit(<<"=","\"","r","e","c","o","r","d","\"",","," ","\"","N","o"," ","f","i","l","t","e","r","\"",","," ","O","F","F","S","E","T","(","'","d","a","t","a"," ","m","a","p","'","!">>),
      Tok(TRUE, <<"C">>, TRUE, 2), Lit(<<","," ","M","A","T","C","H","(">>),
      Tok(FALSE, <<"D">>, TRUE, 12), Lit(<<","," ","'","d","a","t","a"," ","m","a","p","'","!">>),
      Tok(TRUE, <<"L">>, TRUE, 2), Lit(<<":">>), Tok(TRUE, <<"L">>, TRUE, 3200),
      Lit(<<","," ","0",")","-","1",","," ","0",")",")">>)>>
\* single_select_with_other.py first_header_formula, cross_cut_row = 9:
\* =IF(D$13="<>", "No filter", OFFSET('data map'!$E$2, MATCH(D$12, 'data 
\* map'!$L$2:$L$3200, 0)+D$13,0))
TemplateHeader1 ==
    <<Lit(<<"=","I","F","(">>), Tok(FALSE, <<"D">>, TRUE, 13),
      Lit(<<"=","\"","<",">","\"",","," ","\"","N","o"," ","f","i","l","t","e","r","\"",","," ","O","F","F","S","E","T","(","'","d","a","t","a"," ","m","a","p","'","!">>),
      Tok(TRUE, <<"E">>, TRUE, 2), Lit(<<","," ","M","A","T","C","H","(">>),
      Tok(FALSE, <<"D">>, TRUE, 12), Lit(<<","," ","'","d","a","t","a"," ","m","a","p","'","!">>),
      Tok(TRUE, <<"L">>, TRUE, 2), Lit(<<":">>), Tok(TRUE, <<"L">>, TRUE, 3200),
      Lit(<<","," ","0",")","+">>), Tok(FALSE, <<"D">>, TRUE, 13), Lit(<<",","0",")",")">>)>>
\* single_select_with_other.py countifs_formula, cross_cut_row = 9:
\* =COUNTIFS(OFFSET('raw data'!$C$3:$C$502, 0, MATCH($G$4, 'raw data'!$C$
\* 2:$AJC$2, 0)-1), $G6, OFFSET('raw data'!$C$3:$C$502, 0, MATCH(D$12, 'r
\* aw data'!$C$2:$AJC$2, 0)-1), D$13, OFFSET('raw data'!$C$3:$C$502, 0, M
\* ATCH(D$15, 'raw data'!$C$2:$AJC$2, 0)-1), D$16)
TemplateCrossCount ==
    <<Lit(<<"=","C","O","U","N","T","I","F","S","(","O","F","F","S","E","T","(","'","r","a","w"," ","d","a","t","a","'","!">>),
      Tok(TRUE, <<"C">>, TRUE, 3), Lit(<<":">>), Tok(TRUE, <<"C">>, TRUE, 502),
      Lit(<<","," ","0",","," ","M","A","T","C","H","(">>), Tok(TRUE, <<"G">>, TRUE, 4),
      Lit(<<","," ","'","r","a","w"," ","d","a","t","a","'","!">>), Tok(TRUE, <<"C">>, TRUE, 2),
      Lit(<<":">>), Tok(TRUE, <<"A","J","C">>, TRUE, 2),
      Lit(<<","," ","0",")","-","1",")",","," ">>), Tok(TRUE, <<"G">>, FALSE, 6),
      Lit(<<","," ","O","F","F","S","E","T","(","'","r","a","w"," ","d","a","t","a","'","!">>),
      Tok(TRUE, <<"C">>, TRUE, 3), Lit(<<":">>), Tok(TRUE, <<"C">>, TRUE, 502),
      Lit(<<","," ","0",","," ","M","A","T","C","H","(">>), Tok(FALSE, <<"D">>, TRUE, 12),
      Lit(<<","," ","'","r","a","w"," ","d","a","t","a","'","!">>), Tok(TRUE, <<"C">>, TRUE, 2),
      Lit(<<":">>), Tok(TRUE, <<"A","J","C">>, TRUE, 2),
      Lit(<<","," ","0",")","-","1",")",","," ">>), Tok(FALSE, <<"D">>, TRUE, 13),
      Lit(<<","," ","O","F","F","S","E","T","(","'","r","a","w"," ","d","a","t","a","'","!">>),
      Tok(TRUE, <<"C">>, TRUE, 3), Lit(<<":">>), Tok(TRUE, <<"C">>, TRUE, 502),
      Lit(<<","," ","0",","," ","M","A","T","C","H","(">>), Tok(FALSE, <<"D">>, TRUE, 15),
      Lit(<<","," ","'","r","a","w"," ","d","a","t","a","'","!">>), Tok(TRUE, <<"C">>, TRUE, 2),
      Lit(<<":">>), Tok(TRUE, <<"A","J","C">>, TRUE, 2),
      Lit(<<","," ","0",")","-","1",")",","," ">>), Tok(FALSE, <<"D">>, TRUE, 16), Lit(<<")">>)>>
\* the filter values of column D: 'record' and '<>' (not formulas)
TemplateRecord == <<Lit(<<"r","e","c","o","r","d">>)>>
TemplateUnset == <<Lit(<<"<",">">>)>>
\* data_map.py Y4: '0' (not a formula)
TemplateY4 == <<Lit(<<"0">>)>>

\* what column D of the cross-cut block holds when it is dragged across,
\* and the horizontal examples
DragTemplates ==
    {TemplateFilterQ1, TemplateHeader1, TemplateCrossCount, TemplateRecord,
     TemplateUnset, ExampleMixed, ExampleAbs, ExampleNoDollar}

\* the row templates of the two map builders, and the vertical example
CopyDownTemplates == {ExampleRelAbs, TemplateN4, TemplateF3, TemplateY4}

Templates == GenTemplates \cup CopyDownTemplates \cup DragTemplates

DataMapBaseRow == 4     \* row of the data-map templates G4:AG4
CqmBaseRow == 3         \* row of the column-question-map templates D3:G3
DragSourceCol == 4      \* column D of the cross-cut block
DragFirstCol == 5       \* column E
DragLastCol == 14       \* column N

\* source_cell.value.startswith('=')
IsFormula(text) == Len(text) > 0 /\ text[1] = "="

RenderInit ==
    /\ rnParts \in Templates
    /\ rnDir = "none"
    /\ rnOffset = 0
    /\ rnOut = <<>>
    /\ LookupIdle
    /\ ExtractIdle
    /\ PipelineIdle
    /\ VersionIdle
    /\ MarkerIdle

\* data_map_initial_setup: copy one row-4 template down to target_row
DataMapCopyDown ==
    /\ rnDir = "none"
    /\ \E target_row \in (DataMapBaseRow + 1)..MaxTargetRow :
         LET formula == PartsText(rnParts)
             row_offset == target_row - DataMapBaseRow
         IN /\ rnOffset' = row_offset
            /\ IF IsFormula(formula)
               THEN /\ rnOut' = RenderDown(formula, row_offset)
                    /\ rnDir' = "down"
               ELSE /\ rnOut' = <<>>
                    /\ rnDir' = "down_skipped"
    /\ UNCHANGED <<rnParts, lkVars, exVars, plVars, vfVars, smVars>>

\* column_question_map_initial_setup: copy one row-3 template down to row
ColumnQuestionMapCopyDown ==
    /\ rnDir = "none"
    /\ \E row \in (CqmBaseRow + 1)..MaxTargetRow :
         LET formula == PartsText(rnParts)
             row_offset == row - CqmBaseRow
         IN /\ rnOffset' = row_offset
            /\ IF IsFormula(formula)
               THEN /\ rnOut' = RenderDown(formula, row_offset)
                    /\ rnDir' = "down"
               ELSE /\ rnOut' = <<>>
                    /\ rnDir' = "down_skipped"
    /\ UNCHANGED <<rnParts, lkVars, exVars, plVars, vfVars, smVars>>

\* cut_single_select_with_other: drag one column-D cell to column col_num
DragAcross ==
    /\ rnDir = "none"
    /\ rnParts \in DragTemplates
    /\ \E col_num \in DragFirstCol..DragLastCol :
         LET source_value == PartsText(rnParts)
             col_offset == col_num - DragSourceCol
         IN /\ rnOffset' = col_offset
            /\ IF IsFormula(source_value)
               THEN /\ rnOut' = RenderAcross(source_value, col_offset)
                    /\ rnDir' = "across"
               ELSE /\ rnOut' = source_value
                    /\ rnDir' = "across_copied"
    /\ UNCHANGED <<rnParts, lkVars, exVars, plVars, vfVars, smVars>>

RenderNext == DataMapCopyDown \/ ColumnQuestionMapCopyDown \/ DragAcross

SpecRender == RenderInit /\ [][RenderNext]_vars

----------------------------------------------------------------------------
(* The rewrite rules as stated on reference tokens *)

ShiftRow(p, off) ==
    IF p.kind = "ref" /\ ~p.rowAbs THEN [p EXCEPT !.row = @ + off] ELSE p

ShiftCol(p, off) ==
    IF p.kind = "ref" /\ ~p.colAbs
    THEN [p EXCEPT !.col = get_column_letter(column_index_from_string(@) + off)]
    ELSE p

\* C4: a vertical render shifts the row of every reference token without `$`
\* before its row digits by the row offset and leaves every other token and
\* all literal text unchanged.
C4_VerticalRender ==
    rnDir = "down" =>
        rnOut = PartsText([k \in 1..Len(rnParts) |-> ShiftRow(rnParts[k], rnOffset)])

\* "=A1+$B$2" rendered 4 rows down is "=A5+$B$2"
C4_Witness ==
    /\ rnDir = "down"
    /\ rnParts = ExampleRelAbs
    /\ rnOffset = 4
    /\ rnOut = <<"=","A","5","+","$","B","$","2">>

\* C5: a horizontal render shifts the column letters of every reference token
\* without `$` before its column letters by the column offset, whether or not
\* the row digits carry a `$`, and leaves every other token unchanged.
C5_HorizontalRender ==
    rnDir = "across" =>
        rnOut = PartsText([k \in 1..Len(rnParts) |-> ShiftCol(rnParts[k], rnOffset)])

----------------------------------------------------------------------------
(* Marker lookups on generated data-map sheets *)

BlankRow ==
    [C |-> None, D |-> None, E |-> None, G |-> None, H |-> None,
     L |-> None, N |-> None, P |-> None]

\* The kinds of row of a generated sheet.  The looked-up cells of the row at
\* position k carry k, so that the row a result was read from shows.
LookupRowKinds ==
    {"blank", "int1", "padded1", "two", "system", "empty1", "formula1", "falsy1"}

LookupRow(kind, k) ==
    CASE kind = "blank" -> BlankRow
      [] kind = "int1" ->
            [BlankRow EXCEPT !.G = IntV(1), !.H = StrV(<<"s","i","g">> \o IntStr(k)),
                             !.N = IntV(k)]
      [] kind = "padded1" ->
            [BlankRow EXCEPT !.G = StrV(<<" ","1"," ">>),
                             !.H = StrV(<<" ","s","i","g">> \o IntStr(k) \o <<" ">>),
                             !.N = StrV(<<" ">> \o IntStr(k))]
      [] kind = "two" ->
            [BlankRow EXCEPT !.G = StrV(<<"2">>), !.H = StrV(<<"t","w","o">> \o IntStr(k)),
                             !.N = IntV(10 + k)]
      [] kind = "system" ->
            [BlankRow EXCEPT !.G = StrV(TextSystem), !.H = StrV(<<"s","y","s">>),
                             !.N = IntV(20 + k)]
      [] kind = "empty1" -> [BlankRow EXCEPT !.G = IntV(1)]
      [] kind = "formula1" ->
            [BlankRow EXCEPT !.G = IntV(1), !.H = StrV(<<"=","U","4","&","S","4">>),
                             !.C = StrV(<<"[","S">> \o IntStr(k) \o <<"]",":"," ","t","e","x","t"," ">>),
                             !.N = StrV(<<>>)]
      [] kind = "falsy1" ->
            [BlankRow EXCEPT !.G = StrV(<<"1">>), !.H = StrV(<<" ">>),
                             !.N = IntV(0)]

SheetOfKinds(kinds) == [k \in 1..Len(kinds) |-> LookupRow(kinds[k], k)]

\* markers "1","1","2","System","1" at rows 4..8
ScenarioSheet == SheetOfKinds(<<"int1", "int1", "two", "system", "int1">>)

LookupSheets ==
    {SheetOfKinds(kinds) :
        kinds \in UNION {[1..n -> LookupRowKinds] : n \in 0..MaxLookupRows}}
    \cup {ScenarioSheet}

LookupQuestions == {1, 2}

LookupInit ==
    /\ lkMap \in LookupSheets
    /\ lkQ \in LookupQuestions
    /\ lkH = <<>>
    /\ lkN = <<>>
    /\ RenderIdle
    /\ ExtractIdle
    /\ PipelineIdle
    /\ VersionIdle
    /\ MarkerIdle

\* one call of find_question_column_h_text(data_map_ws, question_number)
CallColumnH ==
    /\ Len(lkH) < MaxCalls
    /\ lkH' = Append(lkH, find_question_column_h_text(lkMap, lkQ))
    /\ UNCHANGED <<lkMap, lkQ, lkN, rnVars, exVars, plVars, vfVars, smVars>>

\* one call of find_section_number_from_data_map(data_map_ws, question_number)
CallSectionNumber ==
    /\ Len(lkN) < MaxCalls
    /\ lkN' = Append(lkN, find_section_number_from_data_map(lkMap, lkQ))
    /\ UNCHANGED <<lkMap, lkQ, lkH, rnVars, exVars, plVars, vfVars, smVars>>

LookupNext == CallColumnH \/ CallSectionNumber

SpecLookup == LookupInit /\ [][LookupNext]_vars

\* the rows >= 4 whose column-G value, trimmed and as a string, equals str(q)
MarkerRows(ws, q) ==
    {r \in DataStartRow..MaxRowOf(ws) :
        CellOf(ws, r, "G") # None /\ Strip(PyStr(CellOf(ws, r, "G"))) = IntStr(q)}

LowestMarkerRow(ws, q) ==
    CHOOSE r \in MarkerRows(ws, q) : \A r2 \in MarkerRows(ws, q) : r <= r2

\* every call reads from the lowest marker row, and calls agree
ReadsLowestRow ==
    /\ \A c \in 1..Len(lkH) :
         IF MarkerRows(lkMap, lkQ) = {} THEN lkH[c] = None
         ELSE lkH[c] = ColumnHValueAt(lkMap, LowestMarkerRow(lkMap, lkQ), lkQ)
    /\ \A c \in 1..Len(lkN) :
         IF MarkerRows(lkMap, lkQ) = {} THEN lkN[c] = None
         ELSE lkN[c] = ColumnValueAt(lkMap, LowestMarkerRow(lkMap, lkQ), "N")
    /\ \A c, d \in 1..Len(lkH) : lkH[c] = lkH[d]
    /\ \A c, d \in 1..Len(lkN) : lkN[c] = lkN[d]

\* C1 as stated: the lookups read from the lowest row >= 4 whose marker equals
\* str(q), return None only if no such row exists, and repeated calls on the
\* unchanged sheet agree.
C1_MarkerScan ==
    /\ ReadsLowestRow
    /\ \A c \in 1..Len(lkH) : lkH[c] = None => MarkerRows(lkMap, lkQ) = {}
    /\ \A c \in 1..Len(lkN) : lkN[c] = None => MarkerRows(lkMap, lkQ) = {}

\* C1 amended: the lookups read from the lowest row >= 4 whose marker equals
\* str(q); they return None exactly when no such row exists or the looked-up
\* cell of that row is empty (column H: None; column N: None, '' or 0); and
\* repeated calls on the unchanged sheet agree.
C1_MarkerScanAmended ==
    /\ ReadsLowestRow
    /\ \A c \in 1..Len(lkH) :
         lkH[c] = None <=>
            \/ MarkerRows(lkMap, lkQ) = {}
            \/ CellOf(lkMap, LowestMarkerRow(lkMap, lkQ), "H") = None
    /\ \A c \in 1..Len(lkN) :
         lkN[c] = None <=>
            \/ MarkerRows(lkMap, lkQ) = {}
            \/ ~Truthy(CellOf(lkMap, LowestMarkerRow(lkMap, lkQ), "N"))

\* the scenario sheet looked up twice for question 1: row 4 is used, not row
\* 5 or row 8
C1_Witness ==
    /\ lkMap = ScenarioSheet
    /\ lkQ = 1
    /\ Len(lkH) = 2
    /\ Len(lkN) = 2
    /\ lkH[2] = StrV(<<"s","i","g","1">>)
    /\ lkH[2] # CellOf(lkMap, 5, "H")
    /\ lkH[2] # CellOf(lkMap, 8, "H")
    /\ lkN[2] = StrV(<<"1">>)

----------------------------------------------------------------------------
(* extract_response_options on generated data-map sheets *)

ExtractRowKinds ==
    {"blank", "q1", "q1sec2", "q1nosec", "opt1", "opt1pad", "opt1blank",
     "opt2", "opt11"}

ExtractRow(kind, k) ==
    CASE kind = "blank" -> BlankRow
      [] kind = "q1" ->
            [BlankRow EXCEPT !.G = IntV(1), !.N = IntV(1),
                             !.C = StrV(<<"[","S","1","]",":"," ","W","h","i","c","h"," ","o","n","e","?">>), !.L = StrV(<<"S","1">>),
                             !.P = StrV(<<"Q","u","e","s","t","i","o","n"," ","T","e","x","t"," ","1">>)]
      [] kind = "q1sec2" ->
            [BlankRow EXCEPT !.G = IntV(1), !.N = StrV(<<" ","2"," ">>),
                             !.P = StrV(<<"Q","u","e","s","t","i","o","n"," ","T","e","x","t"," ","2">>)]
      [] kind = "q1nosec" -> [BlankRow EXCEPT !.G = IntV(1)]
      [] kind = "opt1" ->
            [BlankRow EXCEPT !.G = IntV(1), !.N = IntV(1),
                             !.P = StrV(<<"S","e","l","e","c","t"," ","O","p","t","i","o","n"," ","1">>),
                             !.D = IntV(k), !.E = StrV(<<"L">> \o IntStr(k))]
      [] kind = "opt1pad" ->
            [BlankRow EXCEPT !.P = StrV(<<" ","S","e","l","e","c","t"," ","O","p","t","i","o","n"," ","1"," ">>),
                             !.D = StrV(<<"c">> \o IntStr(k)),
                             !.E = StrV(<<" ","P">> \o IntStr(k))]
      [] kind = "opt1blank" ->
            [BlankRow EXCEPT !.P = StrV(<<"S","e","l","e","c","t"," ","O","p","t","i","o","n"," ","1">>)]
      [] kind = "opt2" ->
            [BlankRow EXCEPT !.G = IntV(2), !.N = IntV(2),
                             !.P = StrV(<<"S","e","l","e","c","t"," ","O","p","t","i","o","n"," ","2">>),
                             !.D = IntV(k), !.E = StrV(<<"M">> \o IntStr(k))]
      [] kind = "opt11" ->
            [BlankRow EXCEPT !.P = StrV(<<"S","e","l","e","c","t"," ","O","p","t","i","o","n"," ","1","1">>),
                             !.D = IntV(k), !.E = StrV(<<"N">> \o IntStr(k))]

ExtractSheetOfKinds(kinds) == [k \in 1..Len(kinds) |-> ExtractRow(kinds[k], k)]

OptionRow3(code, label) ==
    [BlankRow EXCEPT !.G = IntV(3), !.N = IntV(3), !.P = StrV(<<"S","e","l","e","c","t"," ","O","p","t","i","o","n"," ","3">>),
                     !.D = IntV(code), !.E = StrV(label)]

\* question 3 with section tag "3" and the options 1-4 Yes, No, Maybe, N/A
ScenarioOptions ==
    <<[BlankRow EXCEPT !.G = IntV(3), !.N = IntV(3),
                       !.C = StrV(<<"[","Q","3","]",":"," ","A","g","r","e","e","?">>), !.L = StrV(<<"Q","3">>),
                       !.P = StrV(<<"Q","u","e","s","t","i","o","n"," ","T","e","x","t"," ","3">>)],
      OptionRow3(1, <<"Y","e","s">>), OptionRow3(2, <<"N","o">>), OptionRow3(3, <<"M","a","y","b","e">>),
      OptionRow3(4, <<"N","/","A">>)>>

\* question 3 with options whose codes are not in increasing order
UnsortedOptions ==
    <<ScenarioOptions[1], OptionRow3(3, <<"M","a","y","b","e">>),
      OptionRow3(1, <<"Y","e","s">>), OptionRow3(2, <<"N","o">>)>>

ExtractInputs ==
    ({ExtractSheetOfKinds(kinds) :
         kinds \in UNION {[1..n -> ExtractRowKinds] : n \in 0..MaxExtractRows}}
     \X {1, 2})
    \cup {<<ScenarioOptions, 3>>, <<UnsortedOptions, 3>>}

\* the sheet cut_single_select_with_other hands to extract_response_options:
\* B2 and P2 marked, C2/G4 and the row-4 headers written
HeaderSheet(data_map_ws, question_number) ==
    add_row4_headers(
        add_question_text_and_section_header(
            Write((<<1, 1>> :> IntV(question_number)),
                  (<<2, 2>> :> StrV(<<"x">>)) @@ (<<2, 16>> :> StrV(<<"x">>))),
            question_number, TRUE, data_map_ws))

LowerSeq == <<"a","b","c","d","e","f","g","h","i","j","k","l","m",
              "n","o","p","q","r","s","t","u","v","w","x","y","z">>

\* str.lower() of one character and of a text
LowerChar(c) == IF IsUpper(c) THEN LowerSeq[LetterIndex(c)] ELSE c

Lower(s) == [k \in 1..Len(s) |-> LowerChar(s[k])]

\* the 'raw data' sheet after its setup: the headers in row 2 from column C
\* on, one respondent per row from row 3 on
RawSheet(headers, respondents) ==
    [cell \in {<<2, 2 + c>> : c \in 1..Len(headers)} |-> StrV(headers[cell[2] - 2])]
    @@ [cell \in {rc \in {<<2 + r, 2 + c>> : r \in 1..Len(respondents), c \in 1..Len(headers)} :
                     respondents[rc[1] - 2][rc[2] - 2] # None} |->
           respondents[cell[1] - 2][cell[2] - 2]]

RawHeaders == <<TextRecord, <<"S","1">>, <<"Q","3">>>>

\* three respondents with their record numbers
RawAnswered ==
    RawSheet(RawHeaders, <<<<IntV(11), IntV(1), IntV(1)>>,
                           <<IntV(12), IntV(2), IntV(1)>>,
                           <<IntV(13), IntV(2), IntV(3)>>>>)

\* the same respondents, the second without a value in column "record"
RawBlankRecord ==
    RawSheet(RawHeaders, <<<<IntV(11), IntV(1), IntV(1)>>,
                           <<None, IntV(2), IntV(1)>>,
                           <<IntV(13), IntV(2), IntV(3)>>>>)

\* no respondent
RawEmpty == RawSheet(RawHeaders, <<>>)

RawSamples == {RawAnswered, RawBlankRecord, RawEmpty}

\* Excel: MATCH(lookup_value, 'raw data'!$C$2:$AJC$2, 0), the position of the
\* first header equal to the value without regard to case, 0 for #N/A
FirstHeaderColumn == 3
LastHeaderColumn == column_index_from_string(<<"A","J","C">>)

ExcelMatch(lookup_value, raw_ws) ==
    LET hits == {c \in {cell[2] : cell \in {rc \in DOMAIN raw_ws : rc[1] = 2}} :
                    /\ c \in FirstHeaderColumn..LastHeaderColumn
                    /\ lookup_value # None
                    /\ Lower(PyStr(ValueAt(raw_ws, 2, c))) = Lower(PyStr(lookup_value))}
    IN IF hits = {} THEN 0 ELSE MinOf(hits) - FirstHeaderColumn + 1

\* Excel: a cell meets a criterion of COUNTIFS.  An empty criterion cell
\* counts as 0, the text "<>" asks for a cell that is not empty, a number
\* for that number and any other text for that text without regard to case
ExcelMeets(cell, criterion) ==
    IF criterion = None THEN cell = IntV(0)
    ELSE IF criterion = StrV(TextSentinel) THEN cell # None
    ELSE IF criterion.t = "int"
         THEN cell = criterion \/ cell = StrV(IntStr(criterion.n))
    ELSE cell # None /\ cell.t = "str" /\ Lower(cell.s) = Lower(criterion.s)

\* the rows of OFFSET('raw data'!$C$3:$C$502, 0, ...)
FirstRawRow == 3
LastRawRow == 502

ErrorNA == StrV(<<"#","N","/","A">>)

\* Excel: COUNTIFS over the columns the headers select; pairs holds, for each
\* criteria range, the header looked up and the criterion
ExcelCountIfs(raw_ws, pairs) ==
    LET position == [k \in DOMAIN pairs |-> ExcelMatch(pairs[k][1], raw_ws)]
    IN IF \E k \in DOMAIN pairs : position[k] = 0 THEN ErrorNA
       ELSE IntV(Cardinality(
               {row \in FirstRawRow..LastRawRow :
                   /\ row <= max_row(raw_ws)
                   /\ \A k \in DOMAIN pairs :
                         ExcelMeets(ValueAt(raw_ws, row, FirstHeaderColumn + position[k] - 1),
                                    pairs[k][2])}))

\* the value Excel gives the COUNTIFS formula of D<formula_row>: the column
\* of the header in $G$4 against $G<row>, and the columns of the headers in
\* $I, $K and $M of the row against $J, $L and $N of the row
CountValue(question_ws, raw_ws, formula_row) ==
    ExcelCountIfs(raw_ws,
        <<<<ValueAt(question_ws, 4, 7), ValueAt(question_ws, formula_row, 7)>>,
          <<ValueAt(question_ws, formula_row, 9), ValueAt(question_ws, formula_row, 10)>>,
          <<ValueAt(question_ws, formula_row, 11), ValueAt(question_ws, formula_row, 12)>>,
          <<ValueAt(question_ws, formula_row, 13), ValueAt(question_ws, formula_row, 14)>>>>)

\* the rows of the question sheet whose column D holds the COUNTIFS formula
CountRows(question_ws) ==
    {row \in FirstOptionRow..max_row(question_ws) :
        ValueAt(question_ws, row, 4) = StrV(count_formula(row))}

ExtractInit ==
    /\ \E input \in ExtractInputs :
          /\ exMap = input[1]
          /\ exQ = input[2]
    /\ exSheet = HeaderSheet(exMap, exQ)
    /\ exState = "ready"
    /\ exRaw \in RawSamples
    /\ exCounts = <<>>
    /\ RenderIdle
    /\ LookupIdle
    /\ PipelineIdle
    /\ VersionIdle
    /\ MarkerIdle

\* extract_response_options(data_map_ws, question_ws, question_number)
ExtractOptions ==
    /\ exState = "ready"
    /\ exSheet' = extract_response_options(exMap, exSheet, exQ)
    /\ exState' = "returned"
    /\ UNCHANGED <<exMap, exQ, exRaw, exCounts, rnVars, lkVars, plVars, vfVars, smVars>>

\* the workbook is opened in Excel and column D of the question sheet is
\* calculated over the 'raw data' sheet
ExcelCalculatesColumnD ==
    /\ exState = "returned"
    /\ exCounts = <<>>
    /\ CountRows(exSheet) # {}
    /\ exCounts' = [row \in CountRows(exSheet) |-> CountValue(exSheet, exRaw, row)]
    /\ UNCHANGED <<exMap, exQ, exSheet, exState, exRaw, rnVars, lkVars, plVars, vfVars, smVars>>

ExtractNext == ExtractOptions \/ ExcelCalculatesColumnD

SpecExtract == ExtractInit /\ [][ExtractNext]_vars

\* the question has a section tag: its lowest marker row has a non-empty
\* column N
HasSectionTag(ws, q) ==
    /\ MarkerRows(ws, q) # {}
    /\ Truthy(ColumnValueAt(ws, LowestMarkerRow(ws, q), "N"))

SectionTag(ws, q) == ColumnValueAt(ws, LowestMarkerRow(ws, q), "N").s

\* the data-map rows whose column P equals "Select Option " + section tag
PatternRows(ws, q) ==
    {r \in DataStartRow..MaxRowOf(ws) :
        /\ Truthy(CellOf(ws, r, "P"))
        /\ Strip(PyStr(CellOf(ws, r, "P"))) = TextSelectOption \o SectionTag(ws, q)}

\* the rows of the option table that hold any cell
TableRows(ws) == {cell[1] : cell \in {c \in DOMAIN ws : c[1] >= FirstOptionRow}}

OptionTableShape(ws, n) ==
    /\ TableRows(ws) = FirstOptionRow..(FirstOptionRow + n)
    /\ ValueAt(ws, FirstOptionRow + n, 7) = StrV(TextSentinel)
    /\ ValueAt(ws, FirstOptionRow + n, 3) = StrV(TextSentinel)
    /\ \A r \in FirstOptionRow..(FirstOptionRow + n) : HasCell(ws, r, 4)

\* C3 as stated: for any number N of rows matching the section pattern the
\* sheet gets exactly N+1 option rows, the last one the "<>" sentinel.
C3_OptionRows ==
    (exState = "returned" /\ HasSectionTag(exMap, exQ)) =>
        OptionTableShape(exSheet, Cardinality(PatternRows(exMap, exQ)))

\* C3 amended: for any number N >= 1 of rows matching the section pattern the
\* sheet gets exactly N+1 option rows (rows 6..6+N), the last one holding "<>"
\* as code (column G) and label (column C).
C3_OptionRowsAmended ==
    (/\ exState = "returned"
     /\ HasSectionTag(exMap, exQ)
     /\ Cardinality(PatternRows(exMap, exQ)) >= 1) =>
        OptionTableShape(exSheet, Cardinality(PatternRows(exMap, exQ)))

\* two options extracted: rows 6, 7 and the sentinel at row 8
C3_Witness ==
    /\ exState = "returned"
    /\ HasSectionTag(exMap, exQ)
    /\ Cardinality(PatternRows(exMap, exQ)) = 2
    /\ ValueAt(exSheet, 8, 3) = StrV(TextSentinel)
    /\ ValueAt(exSheet, 7, 3) # StrV(TextSentinel)

\* C6: every row r of the option table 6..s, s the sentinel row, holds the
\* percentage formula "=D<r>/$D$<s>" in column E.
C6_PercentageDenominator ==
    (/\ exState = "returned"
     /\ HasSectionTag(exMap, exQ)
     /\ Cardinality(PatternRows(exMap, exQ)) >= 1) =>
        LET s == FirstOptionRow + Cardinality(PatternRows(exMap, exQ))
        IN \A r \in FirstOptionRow..s :
              ValueAt(exSheet, r, 5) =
                 StrV(<<"=", "D">> \o IntStr(r) \o <<"/", "$", "D", "$">> \o IntStr(s))

\* rows 6..10 with the sentinel at row 10 all divide by $D$10
C6_Witness ==
    /\ exState = "returned"
    /\ exMap = ScenarioOptions
    /\ ValueAt(exSheet, 10, 3) = StrV(TextSentinel)
    /\ ValueAt(exSheet, 6, 5) = StrV(<<"=","D","6","/","$","D","$","1","0">>)
    /\ ValueAt(exSheet, 10, 5) = StrV(<<"=","D","1","0","/","$","D","$","1","0">>)

\* C10: without a section tag, or without a row matching the section pattern,
\* extract_response_options returns and leaves the question sheet as it was.
C10_EmptyExtraction ==
    (/\ exState # "ready"
     /\ \/ ~HasSectionTag(exMap, exQ)
        \/ PatternRows(exMap, exQ) = {}) =>
        /\ exState = "returned"
        /\ exSheet = HeaderSheet(exMap, exQ)
        /\ TableRows(exSheet) = {}

\* a question with a section tag and no matching option row
C10_Witness ==
    /\ exState = "returned"
    /\ HasSectionTag(exMap, exQ)
    /\ PatternRows(exMap, exQ) = {}
    /\ exSheet = HeaderSheet(exMap, exQ)

\* the i-th row, in increasing row order, of the rows matching the pattern
NthPatternRow(ws, q, i) ==
    CHOOSE r \in PatternRows(ws, q) :
        Cardinality({r2 \in PatternRows(ws, q) : r2 <= r}) = i

\* output row 5+i holds the code and the label of the i-th matching row
SourceOrderKept ==
    (/\ exState = "returned"
     /\ HasSectionTag(exMap, exQ)
     /\ PatternRows(exMap, exQ) # {}) =>
        LET n == Cardinality(PatternRows(exMap, exQ))
        IN /\ \A i \in 1..n :
                 /\ ValueAt(exSheet, 5 + i, 7) = CellOf(exMap, NthPatternRow(exMap, exQ, i), "D")
                 /\ ValueAt(exSheet, 5 + i, 3) = CellOf(exMap, NthPatternRow(exMap, exQ, i), "E")
           /\ ValueAt(exSheet, 6 + n, 7) = StrV(TextSentinel)
           /\ ValueAt(exSheet, 6 + n, 3) = StrV(TextSentinel)

\* the scenario: (1,Yes),(2,No),(3,Maybe),(4,N/A),(<>,<>) at rows 6-10
ScenarioTable ==
    (exState = "returned" /\ exMap = ScenarioOptions) =>
        /\ <<ValueAt(exSheet, 6, 7), ValueAt(exSheet, 6, 3)>> = <<IntV(1), StrV(<<"Y","e","s">>)>>
        /\ <<ValueAt(exSheet, 7, 7), ValueAt(exSheet, 7, 3)>> = <<IntV(2), StrV(<<"N","o">>)>>
        /\ <<ValueAt(exSheet, 8, 7), ValueAt(exSheet, 8, 3)>> = <<IntV(3), StrV(<<"M","a","y","b","e">>)>>
        /\ <<ValueAt(exSheet, 9, 7), ValueAt(exSheet, 9, 3)>> = <<IntV(4), StrV(<<"N","/","A">>)>>
        /\ <<ValueAt(exSheet, 10, 7), ValueAt(exSheet, 10, 3)>> = <<StrV(TextSentinel), StrV(TextSentinel)>>

\* C11: the i-th data-map row matching the section pattern, in increasing row
\* order, supplies output row 5+i: column G holds its column D, column C its
\* column E; the sentinel follows the last option; nothing is sorted.  The
\* four options of section "3" come out as rows 6-9 with the sentinel at 10.
C11_SourceOrder == SourceOrderKept /\ ScenarioTable

\* the options coded 3, 1, 2 come out in rows 6, 7, 8 in that order
C11_Witness ==
    /\ exState = "returned"
    /\ exMap = UnsortedOptions
    /\ ValueAt(exSheet, 6, 7) = IntV(3)
    /\ ValueAt(exSheet, 7, 7) = IntV(1)
    /\ ValueAt(exSheet, 8, 3) = StrV(<<"N","o">>)
    /\ ValueAt(exSheet, 9, 3) = StrV(TextSentinel)

----------------------------------------------------------------------------
(* The setup steps on the loaded workbook (setup/) *)

\* A workbook is the sequence of its sheets in workbook order; a sheet is its
\* title and its cells.  Styles, widths and gridlines are left out.
\* sub in s
InText(sub, s) ==
    \E p \in 1..(Len(s) - Len(sub) + 1) : SubSeq(s, p, p + Len(sub) - 1) = sub

SHEET_RAW_DATA == <<"r","a","w"," ","d","a","t","a">>
SHEET_DATA_MAP == <<"d","a","t","a"," ","m","a","p">>
SHEET_COLUMN_QUESTION_MAP == <<"c","o","l","u","m","n"," ","q","u","e","s","t","i","o","n"," ","m","a","p">>
SHEET_LOOP_VARIABLES == <<"l","o","o","p"," ","v","a","r","i","a","b","l","e","s">>

\* title in [ws.title for ws in workbook.worksheets]
HasSheet(workbook, title) == \E k \in DOMAIN workbook : workbook[k].title = title

\* workbook[title]
SheetIndex(workbook, title) ==
    MinOf({k \in DOMAIN workbook : workbook[k].title = title})

\* the title a sheet is given by `ws.title = value`: openpyxl appends a number
\* when a sheet of the workbook already has the value as its name, case
\* ignored (the titles of the inputs carry no trailing digits)
avoid_duplicate_name(workbook, value) ==
    IF \E k \in DOMAIN workbook : Lower(workbook[k].title) = Lower(value)
    THEN value \o <<"1">>
    ELSE value

Retitled(workbook, k, value) ==
    [workbook EXCEPT ![k].title = avoid_duplicate_name(workbook, value)]

\* pipeline.py line 122: workbook.create_sheet(title=tab_name); the title of the new
\* sheet goes through the title setter of openpyxl
create_sheet(worksheets, title, cells) ==
    Append(worksheets, [title |-> avoid_duplicate_name(worksheets, title), cells |-> cells])

\* initial_set_up, step 1: the condition of the loop over the sheet names
IsRawDataName(sheet_name) ==
    LET sheet_lower == Lower(sheet_name)
    IN \/ sheet_lower \in {<<"a">>, <<"b">>, SHEET_RAW_DATA}
       \/ (Len(sheet_lower) > 0 /\ sheet_lower[1] = "a" /\ Len(sheet_lower) <= 3)

\* step 1: the first sheet with such a name is renamed, unless its name in
\* lower case is 'raw data' already
RenameRawData(workbook) ==
    LET hits == {k \in DOMAIN workbook : IsRawDataName(workbook[k].title)}
    IN IF hits = {} THEN workbook
       ELSE LET k == MinOf(hits)
            IN IF Lower(workbook[k].title) # SHEET_RAW_DATA
               THEN Retitled(workbook, k, SHEET_RAW_DATA)
               ELSE workbook

\* step 2: the first sheet with 'datamap' in its name is renamed
RenameDataMap(workbook) ==
    LET hits == {k \in DOMAIN workbook :
                    InText(<<"d","a","t","a","m","a","p">>, Lower(workbook[k].title))}
    IN IF hits = {} THEN workbook
       ELSE Retitled(workbook, MinOf(hits), SHEET_DATA_MAP)

\* step 3: a blank tab is added for each required tab no sheet is named
\* after, case ignored
WithRequiredTab(workbook, tab) ==
    IF \E k \in DOMAIN workbook : Lower(workbook[k].title) = Lower(tab)
    THEN workbook
    ELSE Append(workbook, [title |-> tab, cells |-> EmptySheet])

\* initial_set_up(workbook)
initial_set_up(workbook) ==
    WithRequiredTab(
        WithRequiredTab(RenameDataMap(RenameRawData(workbook)),
                        SHEET_COLUMN_QUESTION_MAP),
        SHEET_LOOP_VARIABLES)

\* ws.insert_rows(1, rows) and ws.insert_cols(1, cols): every cell moves
Shifted(cells, rows, cols) ==
    [cell \in {<<c[1] + rows, c[2] + cols>> : c \in DOMAIN cells} |->
        cells[<<cell[1] - rows, cell[2] - cols>>]]

\* ws.max_row and ws.max_column
max_column(ws) ==
    IF DOMAIN ws = {} THEN 1 ELSE MaxOf({cell[2] : cell \in DOMAIN ws})

\* raw_data_initial_setup(workbook): without a 'raw data' sheet the step
\* returns at once; otherwise two columns and one row are inserted in front
raw_data_initial_setup_always(workbook) ==
    LET k == IF HasSheet(workbook, SHEET_RAW_DATA)
             THEN SheetIndex(workbook, SHEET_RAW_DATA) ELSE 1
    IN [workbook EXCEPT ![k].cells = Shifted(workbook[k].cells, 1, 2)]

raw_data_initial_setup(workbook) ==
    IF ~HasSheet(workbook, SHEET_RAW_DATA) THEN workbook
    ELSE LET k == SheetIndex(workbook, SHEET_RAW_DATA)
         IN [workbook EXCEPT ![k].cells = Shifted(workbook[k].cells, 1, 2)]

\* data_map_initial_setup, lines 81-103: the headers of row 2, C2, D2, E2 and
\* G2 first and then H2..AG2
DataMapHeaders ==
    <<<<"Q","u","e","s","t","i","o","n"," ","I","n","f","o">>,
      <<"S","y","s","t","e","m"," ","R","e","s","p","o","n","s","e"," ","O","p","t","i","o","n">>,
      <<"T","e","x","t"," ","R","e","s","p","o","n","s","e"," ","O","p","t","i","o","n">>,
      <<"Q","u","e","s","t","i","o","n"," ","N","u","m","b","e","r">>,
      <<"Q","u","e","s","t","i","o","n"," ","T","y","p","e">>,
      <<"Q","u","e","s","t","i","o","n"," ","T","e","x","t">>,
      <<"Q","u","e","s","t","i","o","n"," ","C","o","d","e">>,
      <<"S","y","s","t","e","m"," ","o","r"," ","S","u","r","v","e","y"," ","Q">>,
      <<"Q","u","e","s","t","i","o","n"," ","P","r","e","f","i","x">>,
      <<"S","e","c","t","i","o","n"," ","M","a","r","k","e","r">>,
      <<"S","e","c","t","i","o","n"," ","N","u","m","b","e","r">>,
      <<"R","o","w"," ","T","a","g">>,
      <<"R","o","w"," ","T","a","g"," ","+"," ","S","e","c","t","i","o","n">>,
      <<"O","t","h","e","r"," ","T","e","x","t"," ","E","n","t","r","y"," ","F","l","a","g">>,
      <<"O","t","h","e","r"," ","Q","u","e","s","t","i","o","n"," ","T","y","p","e"," ","F","l","a","g">>,
      <<"O","t","h","e","r"," ","Q","u","e","s","t","i","o","n"," ","T","y","p","e">>,
      <<"S","y","s","t","e","m"," ","Q","u","e","s","t","i","o","n"," ","F","l","a","g">>,
      <<"S","y","s","t","e","m"," ","Q","u","e","s","t","i","o","n">>,
      <<"O","p","e","n"," ","T","e","x","t">>,
      <<"N","u","m","e","r","i","c","a","l">>,
      <<"S","i","m","p","l","e"," ","S","e","l","e","c","t">>,
      <<"M","u","l","t","i"," ","S","e","l","e","c","t"," ","(","p","l","a","c","e","h","o","l","d","e","r",")">>,
      <<"R","a","n","k">>,
      <<"M","a","t","r","i","x">>,
      <<"L","o","o","p">>,
      <<"D","o","u","b","l","e"," ","L","o","o","p">>,
      <<"D","o","u","b","l","e"," ","L","o","o","p"," ","F","l","a","g"," ","#","0">>,
      <<"D","o","u","b","l","e"," ","L","o","o","p"," ","F","l","a","g"," ","#","1">>,
      <<"D","o","u","b","l","e"," ","L","o","o","p"," ","F","l","a","g"," ","#","2">>,
      <<"D","o","u","b","l","e"," ","L","o","o","p"," ","F","l","a","g"," ","#","3">>>>

\* the columns C, D, E, G, H, ..., AG the headers go to
DataMapHeaderColumn(i) == IF i <= 3 THEN 2 + i ELSE 3 + i

DataMapHeaderCells ==
    [cell \in {<<2, DataMapHeaderColumn(i)>> : i \in 1..Len(DataMapHeaders)} |->
        StrV(DataMapHeaders[IF cell[2] <= 5 THEN cell[2] - 2 ELSE cell[2] - 3])]

\* lines 160-214: the texts written to G4, H4, ..., AG4
DataMapRow4 ==
    <<<<"=","I","N","D","E","X","(","'","c","o","l","u","m","n"," ","q",
        "u","e","s","t","i","o","n"," ","m","a","p","'","!","$","F","$",
        "3",":","$","F","$","9","3","9",","," ","M","A","T","C","H","(",
        "'","d","a","t","a"," ","m","a","p","'","!","$","L","4",","," ",
        "'","c","o","l","u","m","n"," ","q","u","e","s","t","i","o","n",
        " ","m","a","p","'","!","$","E","$","3",":","$","E","$","9","3",
        "9",","," ","0",")",")">>,
      \* H4
      <<"=","U","4","&","\"",","," ","\"","&","V","4","&","\"",","," ","\"",
        "&","W","4","&","\"",","," ","\"","&","X","4","&","\"",","," ","\"",
        "&","Y","4","&","\"",","," ","\"","&","Z","4","&","\"",","," ","\"",
        "&","A","A","4","&","\"",","," ","\"","&","A","B","4","&","\"",",",
        " ","\"","&","A","C","4","&","\"",","," ","\"","&","S","4">>,
      \* I4
      <<"=","I","N","D","E","X","(","$","C","$","4",":","$","C","$","3",
        "2","0","0",","," ","M","A","T","C","H","(","\"","Q","u","e","s",
        "t","i","o","n"," ","T","e","x","t"," ","\"","&","N","4",","," ",
        "$","P","$","4",":","$","P","$","3","2","0","0",","," ","0",")",
        ")">>,
      \* J4
      <<"=","S","U","B","S","T","I","T","U","T","E","(","S","U","B","S",
        "T","I","T","U","T","E","(","L","E","F","T","(","I","4",",","F",
        "I","N","D","(","\"",":","\"",",","I","4",")","-","1",")",",","\"",
        "[","\"",",","\"","\"",")",",","\"","]","\"",",","\"","\"",")">>,
      \* K4
      <<"=","I","F","(","I","S","T","E","X","T","(","L","E","F","T","(",
        "J","4",",","1",")",")",",","I","F","(","E","X","A","C","T","(",
        "L","E","F","T","(","J","4",",","1",")",",","U","P","P","E","R",
        "(","L","E","F","T","(","J","4",",","1",")",")",")",",","\"","S",
        "u","r","v","e","y","\"",",","\"","S","y","s","t","e","m","\"",")",
        ",","\"","F","i","r","s","t"," ","C","h","a","r"," ","n","o","t",
        " ","L","e","t","t","e","r","\"",")">>,
      \* L4
      <<"=","I","F","(","K","4","=","\"","S","y","s","t","e","m","\"",",",
        "\"","S","y","s","t","e","m","\"",",","I","F","(","I","S","N","U",
        "M","B","E","R","(","F","I","N","D","(","\"","_","\"",",","J","4",
        ")",")",",","L","E","F","T","(","J","4",",","F","I","N","D","(",
        "\"","_","\"",",","J","4",")","-","1",")",",","I","F","(","I","S",
        "N","U","M","B","E","R","(","F","I","N","D","(","\"","n","o","n",
        "e","\"",",","J","4",")",")",",","L","E","F","T","(","J","4",",",
        "F","I","N","D","(","\"","n","o","n","e","\"",",","J","4",")","-",
        "1",")",",","I","F","(","I","S","N","U","M","B","E","R","(","F",
        "I","N","D","(","\"","r","\"",",","J","4",")",")",",","L","E","F",
        "T","(","J","4",",","F","I","N","D","(","\"","r","\"",",","J","4",
        ")","-","1",")",",","J","4",")",")",")",")">>,
      \* M4
      <<"=","I","F","(","A","N","D","(","C","4","=","\"","\"",","," ","D",
        "4","=","\"","\"",","," ","E","4","=","\"","\"",")",","," ","\"","E",
        "n","d","\"",","," ","I","F","(","A","N","D","(","O","F","F","S",
        "E","T","(","C","4",",","-","1",",","0",")","=","\"","\"",","," ",
        "O","F","F","S","E","T","(","D","4",",","-","1",",","0",")","=",
        "\"","\"",","," ","O","F","F","S","E","T","(","E","4",",","-","1",
        ",","0",")","=","\"","\"",")",","," ","\"","S","t","a","r","t","\"",
        ","," ","\"","M","i","d","\"",")",")">>,
      \* N4
      <<"=","C","O","U","N","T","I","F","S","(","$","M","$","4",":","M",
        "4",","," ","\"","S","t","a","r","t","\"",")">>,
      \* O4
      <<"=","I","F","(","M","4","=","\"","S","t","a","r","t","\"",",","\"",
        "Q","u","e","s","t","i","o","n"," ","T","e","x","t","\"",",","I",
        "F","(","O","3","=","\"","Q","u","e","s","t","i","o","n"," ","T",
        "e","x","t","\"",",","\"","R","e","s","p","o","n","s","e"," ","T",
        "y","p","e","\"",",","I","F","(","I","S","N","U","M","B","E","R",
        "(","D","4",")",",","\"","S","e","l","e","c","t"," ","O","p","t",
        "i","o","n","\"",",","I","F","(","A","N","D","(","L","E","F","T",
        "(","D","4",",","1",")","=","\"","[","\"",",","R","I","G","H","T",
        "(","D","4",",","1",")","=","\"","]","\"",")",",","\"","B","r","a",
        "c","k","e","t","e","d"," ","S","u","b","-","Q","u","e","s","t",
        "i","o","n","\"",",","\"","E","n","d","\"",")",")",")",")">>,
      \* P4
      <<"=","O","4"," ","&"," ","\""," ","\""," ","&","N","4">>,
      \* Q4
      <<"=","I","F","(","I","S","N","U","M","B","E","R","(","S","E","A",
        "R","C","H","(","\"","o","e","]","\"",","," ","C","4",")",")",",",
        " ","\"","O","t","h","e","r"," ","T","e","x","t"," ","E","n","t",
        "r","y","\"",","," ","0",")">>,
      \* R4
      <<"=","I","F","E","R","R","O","R","(","I","F","(","Q","4","=","\"",
        "O","t","h","e","r"," ","T","e","x","t"," ","E","n","t","r","y",
        "\"",",","\"","O","t","h","e","r"," ","S","p","e","c","i","f","y",
        " ","C","h","i","l","d","\"",",","I","F","(","I","N","D","E","X",
        "(","$","Q","$","4",":","$","Q","$","3","2","0","0",",","M","A",
        "T","C","H","(","O","4","&","\""," ","\"","&","T","E","X","T","(",
        "N","4","+","1",",","\"","0","\"",")",",","$","P","$","4",":","$",
        "P","$","3","2","0","0",",","0",")",")","=","\"","O","t","h","e",
        "r"," ","T","e","x","t"," ","E","n","t","r","y","\"",",","\"","O",
        "t","h","e","r"," ","S","p","e","c","i","f","y"," ","P","a","r",
        "e","n","t","\"",",","0",")",")",",","0",")">>,
      \* S4
      <<"=","I","N","D","E","X","(","$","R","$","4",":","$","R","$","3",
        "2","0","0",","," ","M","A","T","C","H","(","\"","Q","u","e","s",
        "t","i","o","n"," ","T","e","x","t"," ","\"","&","N","4",","," ",
        "$","P","$","4",":","$","P","$","3","2","0","0",","," ","0",")",
        ")">>,
      \* T4
      <<"=","I","F","(","O","R","(","I","S","N","U","M","B","E","R","(",
        "S","E","A","R","C","H","(","\"","[","r","e","c","o","r","d","]",
        "\"",",","C","4",")",")",",","I","S","N","U","M","B","E","R","(",
        "S","E","A","R","C","H","(","\"","[","u","u","i","d","]","\"",",",
        "C","4",")",")",",","I","S","N","U","M","B","E","R","(","S","E",
        "A","R","C","H","(","\"","[","d","a","t","e","]","\"",",","C","4",
        ")",")",",","I","S","N","U","M","B","E","R","(","S","E","A","R",
        "C","H","(","\"","[","m","a","r","k","e","r","s","]","\"",",","C",
        "4",")",")",",","I","S","N","U","M","B","E","R","(","S","E","A",
        "R","C","H","(","\"","[","s","t","a","t","u","s","]","\"",",","C",
        "4",")",")",",","I","S","N","U","M","B","E","R","(","S","E","A",
        "R","C","H","(","\"","c","o","n","d","i","t","i","o","n","s",":",
        " ","C","o","n","d","i","t","i","o","n","s","\"",",","C","4",")",
        ")",",","I","S","N","U","M","B","E","R","(","S","E","A","R","C",
        "H","(","\"","[","v","l","i","s","t","]","\"",",","C","4",")",")",
        ",","I","S","N","U","M","B","E","R","(","S","E","A","R","C","H",
        "(","\"","[","q","t","i","m","e","]","\"",",","C","4",")",")",",",
        "I","S","N","U","M","B","E","R","(","S","E","A","R","C","H","(",
        "\"","[","v","o","s","]","\"",",","C","4",")",")",",","I","S","N",
        "U","M","B","E","R","(","S","E","A","R","C","H","(","\"","[","v",
        "o","s","r","1","5","o","e","]","\"",",","C","4",")",")",",","I",
        "S","N","U","M","B","E","R","(","S","E","A","R","C","H","(","\"",
        "[","v","b","r","o","w","s","e","r","]","\"",",","C","4",")",")",
        ",","I","S","N","U","M","B","E","R","(","S","E","A","R","C","H",
        "(","\"","[","v","b","r","o","w","s","e","r","1","5","o","e","]",
        "\"",",","C","4",")",")",",","I","S","N","U","M","B","E","R","(",
        "S","E","A","R","C","H","(","\"","[","v","m","o","b","i","l","e",
        "d","e","v","i","c","e","]","\"",",","C","4",")",")",",","I","S",
        "N","U","M","B","E","R","(","S","E","A","R","C","H","(","\"","[",
        "v","m","o","b","i","l","e","o","s","]","\"",",","C","4",")",")",
        ",","I","S","N","U","M","B","E","R","(","S","E","A","R","C","H",
        "(","\"","[","s","t","a","r","t","_","d","a","t","e","]","\"",",",
        "C","4",")",")",",","I","S","N","U","M","B","E","R","(","S","E",
        "A","R","C","H","(","\"","[","v","d","r","o","p","o","u","t","]",
        "\"",",","C","4",")",")",",","I","S","N","U","M","B","E","R","(",
        "S","E","A","R","C","H","(","\"","[","s","o","u","r","c","e","]",
        "\"",",","C","4",")",")",",","I","S","N","U","M","B","E","R","(",
        "S","E","A","R","C","H","(","\"","[","d","e","c","L","a","n","g",
        "]","\"",",","C","4",")",")",",","I","S","N","U","M","B","E","R",
        "(","S","E","A","R","C","H","(","\"","[","l","i","s","t","]","\"",
        ",","C","4",")",")",",","I","S","N","U","M","B","E","R","(","S",
        "E","A","R","C","H","(","\"","[","u","s","e","r","A","g","e","n",
        "t","]","\"",",","C","4",")",")",",","I","S","N","U","M","B","E",
        "R","(","S","E","A","R","C","H","(","\"","[","f","p","_","e","t",
        "a","g","]","\"",",","C","4",")",")",",","I","S","N","U","M","B",
        "E","R","(","S","E","A","R","C","H","(","\"","[","f","p","_","h",
        "t","m","l","5","]","\"",",","C","4",")",")",",","I","S","N","U",
        "M","B","E","R","(","S","E","A","R","C","H","(","\"","[","f","p",
        "_","f","l","a","s","h","]","\"",",","C","4",")",")",",","I","S",
        "N","U","M","B","E","R","(","S","E","A","R","C","H","(","\"","[",
        "f","p","_","b","r","o","w","s","e","r","]","\"",",","C","4",")",
        ")",",","I","S","N","U","M","B","E","R","(","S","E","A","R","C",
        "H","(","\"","[","d","c","u","a","]","\"",",","C","4",")",")",",",
        "I","S","N","U","M","B","E","R","(","S","E","A","R","C","H","(",
        "\"","[","u","r","l","]","\"",",","C","4",")",")",",","I","S","N",
        "U","M","B","E","R","(","S","E","A","R","C","H","(","\"","[","s",
        "e","s","s","i","o","n","]","\"",",","C","4",")",")",",","I","S",
        "N","U","M","B","E","R","(","S","E","A","R","C","H","(","\"","[",
        "s","2","4","6","2","7","]","\"",",","C","4",")",")",",","I","S",
        "N","U","M","B","E","R","(","S","E","A","R","C","H","(","\"","[",
        "s","2","5","0","2","3","]","\"",",","C","4",")",")",")",",","\"",
        "S","y","s","t","e","m"," ","Q","u","e","s","t","i","o","n","\"",
        ",","0",")">>,
      \* U4
      <<"=","I","N","D","E","X","(","$","T","$","4",":","$","T","$","3",
        "2","0","0",","," ","M","A","T","C","H","(","\"","Q","u","e","s",
        "t","i","o","n"," ","T","e","x","t"," ","\"","&","N","4",","," ",
        "$","P","$","4",":","$","P","$","3","2","0","0",","," ","0",")",
        ")">>,
      \* V4
      <<"=","I","F","(","I","N","D","E","X","(","$","C","$","4",":","$",
        "C","$","3","2","0","0",","," ","M","A","T","C","H","(","\"","R",
        "e","s","p","o","n","s","e"," ","T","y","p","e"," ","\"","&","N",
        "4",","," ","$","P","$","4",":","$","P","$","3","2","0","0",",",
        " ","0",")",")"," ","="," ","\"","O","p","e","n"," ","t","e","x",
        "t"," ","r","e","s","p","o","n","s","e","\"",","," ","\"","O","p",
        "e","n"," ","T","e","x","t","\"",","," ","0",")">>,
      \* W4
      <<"=","I","F","(","I","N","D","E","X","(","$","C","$","4",":","$",
        "C","$","3","2","0","0",","," ","M","A","T","C","H","(","\"","R",
        "e","s","p","o","n","s","e"," ","T","y","p","e"," ","\"","&","N",
        "4",","," ","$","P","$","4",":","$","P","$","3","2","0","0",",",
        " ","0",")",")"," ","="," ","\"","O","p","e","n"," ","n","u","m",
        "e","r","i","c"," ","r","e","s","p","o","n","s","e","\"",","," ",
        "\"","N","u","m","e","r","i","c","a","l","\"",","," ","I","F","(",
        "A","N","D","(","L","E","F","T","(","I","N","D","E","X","(","$",
        "C","$","4",":","$","C","$","3","2","0","0",","," ","M","A","T",
        "C","H","(","\"","R","e","s","p","o","n","s","e"," ","T","y","p",
        "e"," ","\"","&","N","4",","," ","$","P","$","4",":","$","P","$",
        "3","2","0","0",","," ","0",")",")",","," ","5",")"," ","="," ",
        "\"","V","a","l","u","e","\"",","," ","I","S","E","R","R","O","R",
        "(","M","A","T","C","H","(","\"","S","e","l","e","c","t"," ","O",
        "p","t","i","o","n"," ","\"","&","N","4",","," ","$","P","$","4",
        ":","$","P","$","3","2","0","0",","," ","0",")",")",")",","," ",
        "\"","N","u","m","e","r","i","c","a","l","\"",","," ","0",")",")">>,
      \* X4
      <<"=","I","F","(","A","N","D","(","N","O","T","(","S","4","=","\"",
        "O","t","h","e","r"," ","S","p","e","c","i","f","y"," ","C","h",
        "i","l","d","\"",")",","," ","T","4","=","0",","," ","U","4","=",
        "0",","," ","V","4","=","0",","," ","W","4","=","0",","," ","L",
        "E","F","T","(","I","N","D","E","X","(","$","C","$","4",":","$",
        "C","$","3","2","0","0",","," ","M","A","T","C","H","(","\"","Q",
        "u","e","s","t","i","o","n"," ","T","e","x","t"," ","\"","&","N",
        "4",","," ","$","P","$","4",":","$","P","$","3","2","0","0",",",
        " ","0",")",")",","," ","1",")"," ","="," ","\"","[","\"",")",",",
        " ","\"","S","i","m","p","l","e"," ","S","e","l","e","c","t","\"",
        ","," ","0",")">>,
      \* Y4
      <<"0">>,
      \* Z4
      <<"=","I","F","(","I","S","N","U","M","B","E","R","(","S","E","A",
        "R","C","H","(","\"","r","a","n","k","\"",","," ","I","N","D","E",
        "X","(","$","C","$","4",":","$","C","$","3","2","0","0",","," ",
        "M","A","T","C","H","(","\"","Q","u","e","s","t","i","o","n"," ",
        "T","e","x","t"," ","\"","&","N","4",","," ","$","P","$","4",":",
        "$","P","$","3","2","0","0",","," ","0",")",")",")",")",","," ",
        "\"","R","a","n","k","\"",","," ","0",")">>,
      \* AA4
      <<"=","I","F","(","A","N","D","(","Z","4","=","0",","," ","N","O",
        "T","(","(","I","S","E","R","R","O","R","(","M","A","T","C","H",
        "(","\"","B","r","a","c","k","e","t","e","d"," ","S","u","b","-",
        "Q","u","e","s","t","i","o","n"," ","\""," ","&"," ","N","4",",",
        " ","$","P","$","4",":","$","P","$","3","2","0","0",","," ","0",
        ")",")",")",")",")",","," ","\"","M","a","t","r","i","x","\"",",",
        " ","0",")">>,
      \* AB4
      <<"=","I","F","(","I","S","N","U","M","B","E","R","(","S","E","A",
        "R","C","H","(","\"","_","\"",","," ","I","N","D","E","X","(","$",
        "C","$","4",":","$","C","$","3","2","0","0",","," ","M","A","T",
        "C","H","(","\"","Q","u","e","s","t","i","o","n"," ","T","e","x",
        "t"," ","\"","&","N","4",","," ","$","P","$","4",":","$","P","$",
        "3","2","0","0",","," ","0",")",")",")",")",","," ","\"","L","o",
        "o","p","\"",","," ","0",")">>,
      \* AC4
      <<"=","I","N","D","E","X","(","$","A","D","$","4",":","$","A","D",
        "$","3","2","0","0",","," ","M","A","T","C","H","(","\"","Q","u",
        "e","s","t","i","o","n"," ","T","e","x","t"," ","\"","&","N","4",
        ","," ","$","P","$","4",":","$","P","$","3","2","0","0",","," ",
        "0",")",")">>,
      \* AD4
      <<"=","I","F","(","A","E","4","*","A","F","4","*","A","G","4","=",
        "1",","," ","\"","D","o","u","b","l","e"," ","L","o","o","p","\"",
        ","," ","0",")">>,
      \* AE4
      <<"=","I","F","E","R","R","O","R","(","I","F","(","A","N","D","(",
        "I","S","N","U","M","B","E","R","(","S","E","A","R","C","H","(",
        "\"","_","\"",",","C","4",")",")",",","I","S","E","R","R","O","R",
        "(","V","A","L","U","E","(","M","I","D","(","C","4",",","S","E",
        "A","R","C","H","(","\"","_","\"",",","C","4",")","-","1",",","1",
        ")",")",")",",","M","I","D","(","C","4",",","S","E","A","R","C",
        "H","(","\"","_","\"",",","C","4",")","-","1",",","1",")","<",">",
        "\"","\"",")",",","1",",","0",")",","," ","0",")">>,
      \* AF4
      <<"=","I","F","(","A","N","D","(","I","S","N","U","M","B","E","R",
        "(","S","E","A","R","C","H","(","\"","L","r","\"",",","C","4",")",
        ")",",","I","S","N","U","M","B","E","R","(","V","A","L","U","E",
        "(","M","I","D","(","C","4",",","S","E","A","R","C","H","(","\"",
        "L","r","\"",",","C","4",")","+","2",",","1",")",")",")",")",",",
        "1",",","0",")">>,
      \* AG4
      <<"=","I","F","(","O","R","(","I","S","N","U","M","B","E","R","(",
        "S","E","A","R","C","H","(","\"","0","r","\"",",","C","4",")",")",
        ",","I","S","N","U","M","B","E","R","(","S","E","A","R","C","H",
        "(","\"","1","r","\"",",","C","4",")",")",",","I","S","N","U","M",
        "B","E","R","(","S","E","A","R","C","H","(","\"","2","r","\"",",",
        "C","4",")",")",",","I","S","N","U","M","B","E","R","(","S","E",
        "A","R","C","H","(","\"","3","r","\"",",","C","4",")",")",",","I",
        "S","N","U","M","B","E","R","(","S","E","A","R","C","H","(","\"",
        "4","r","\"",",","C","4",")",")",",","I","S","N","U","M","B","E",
        "R","(","S","E","A","R","C","H","(","\"","5","r","\"",",","C","4",
        ")",")",",","I","S","N","U","M","B","E","R","(","S","E","A","R",
        "C","H","(","\"","6","r","\"",",","C","4",")",")",",","I","S","N",
        "U","M","B","E","R","(","S","E","A","R","C","H","(","\"","7","r",
        "\"",",","C","4",")",")",",","I","S","N","U","M","B","E","R","(",
        "S","E","A","R","C","H","(","\"","8","r","\"",",","C","4",")",")",
        ",","I","S","N","U","M","B","E","R","(","S","E","A","R","C","H",
        "(","\"","9","r","\"",",","C","4",")",")",")",",","1",",","0",")">>>>

\* line 241 (data_map.py) and line 140 (column_question_map.py): the source
\* cell holds a formula
IsFormulaValue(v) == Truthy(v) /\ v.t = "str" /\ v.s[1] = "="

\* the last row with text in column C, 1 when there is none
LastRowWithText(ws) ==
    LET rows == {row \in 1..max_row(ws) : NonBlank(ValueAt(ws, row, 3))}
    IN IF rows = {} THEN 1 ELSE MaxOf(rows)

DataMapRow4Cells ==
    [cell \in {<<4, 6 + i>> : i \in 1..Len(DataMapRow4)} |-> StrV(DataMapRow4[cell[2] - 6])]

\* lines 227-262: the formulas of G4:AG4 copied to rows 5..target_last_row,
\* each with its relative rows moved by target_row - 4
DataMapCopyDownCells(ws, target_last_row) ==
    [cell \in {<<target_row, col>> :
                  target_row \in 5..target_last_row,
                  col \in {c \in 7..33 : IsFormulaValue(ValueAt(ws, 4, c))}} |->
        StrV(RenderDown(ValueAt(ws, 4, cell[2]).s, cell[1] - 4))]

\* the data-map sheet as data_map_initial_setup leaves it
DataMapSheetSetup(cells) ==
    LET w1 == Shifted(cells, 3, 2)
        w2 == Write(w1, DataMapHeaderCells)
        w3 == Write(w2, DataMapRow4Cells)
        target_last_row == LastRowWithText(w3) + 1
    IN IF target_last_row > 4
       THEN Write(w3, DataMapCopyDownCells(w3, target_last_row))
       ELSE w3

\* data_map_initial_setup(workbook): without a 'data map' sheet the step
\* returns at once
data_map_initial_setup(workbook) ==
    IF ~HasSheet(workbook, SHEET_DATA_MAP) THEN workbook
    ELSE LET k == SheetIndex(workbook, SHEET_DATA_MAP)
         IN [workbook EXCEPT ![k].cells = DataMapSheetSetup(workbook[k].cells)]

\* column_question_map_initial_setup, lines 53-64: the headers of C2:H2
CqmHeaders ==
    <<<<"A","l","l"," ","q","u","e","s","t","i","o","n"," ","c","o","l","u","m","n","s">>,
      <<"S","y","s","t","e","m"," ","o","r"," ","S","u","r","v","e","y">>,
      <<"Q","u","e","s","t","i","o","n"," ","m","a","r","k","e","r","s">>,
      <<"Q","u","e","s","t","i","o","n"," ","N","u","m","b","e","r">>,
      <<"U","n","i","q","u","e"," ","q","u","e","s","t","i","o","n"," ","m","a","r","k","e","r","s">>,
      <<"Q","u","e","s","t","i","o","n"," ","N","u","m","b","e","r"," ","M","a","p">>>>

CqmHeaderCells ==
    [cell \in {<<2, 2 + i>> : i \in 1..Len(CqmHeaders)} |-> StrV(CqmHeaders[cell[2] - 2])]

\* lines 84-104: the headers of row 2 of the raw data sheet, from column C
\* on, in column order and without the empty cells
RECURSIVE RawHeadersFrom(_, _, _)
RawHeadersFrom(raw_data_ws, col, last_col_with_text) ==
    IF col > last_col_with_text THEN <<>>
    ELSE LET header_value == ValueAt(raw_data_ws, 2, col)
         IN (IF header_value # None THEN <<header_value>> ELSE <<>>)
            \o RawHeadersFrom(raw_data_ws, col + 1, last_col_with_text)

CopiedHeaders(raw_data_ws) ==
    LET cols == {col \in 1..max_column(raw_data_ws) :
                    NonBlank(ValueAt(raw_data_ws, 2, col))}
        last_col_with_text == IF cols = {} THEN 1 ELSE MaxOf(cols)
    IN RawHeadersFrom(raw_data_ws, 3, last_col_with_text)

\* the copied headers written to C3, C4, ...
TransposedCells(headers) ==
    [cell \in {<<2 + i, 3>> : i \in 1..Len(headers)} |-> headers[cell[1] - 2]]

\* lines 112-118: D3, E3 and F3
FormulaD3 ==
    <<"=","I","F","(","I","S","T","E","X","T","(","L","E","F","T","(",
      "C","3",",","1",")",")",",","I","F","(","E","X","A","C","T","(",
      "L","E","F","T","(","C","3",",","1",")",",","U","P","P","E","R",
      "(","L","E","F","T","(","C","3",",","1",")",")",")",",","\"","S",
      "u","r","v","e","y","\"",",","\"","S","y","s","t","e","m","\"",")",
      ",","\"","F","i","r","s","t"," ","C","h","a","r"," ","n","o","t",
      " ","L","e","t","t","e","r","\"",")">>
FormulaE3 ==
    <<"=","I","F","(","D","3","=","\"","S","y","s","t","e","m","\"",",",
      "\"","S","y","s","t","e","m","\"",",","I","F","(","I","S","N","U",
      "M","B","E","R","(","F","I","N","D","(","\"","_","\"",",","C","3",
      ")",")",",","L","E","F","T","(","C","3",",","F","I","N","D","(",
      "\"","_","\"",",","C","3",")","-","1",")",",","I","F","(","I","S",
      "N","U","M","B","E","R","(","F","I","N","D","(","\"","n","o","n",
      "e","\"",",","C","3",")",")",",","L","E","F","T","(","C","3",",",
      "F","I","N","D","(","\"","n","o","n","e","\"",",","C","3",")","-",
      "1",")",",","I","F","(","I","S","N","U","M","B","E","R","(","F",
      "I","N","D","(","\"","r","\"",",","C","3",")",")",",","L","E","F",
      "T","(","C","3",",","F","I","N","D","(","\"","r","\"",",","C","3",
      ")","-","1",")",",","C","3",")",")",")",")">>
FormulaF3 ==
    <<"=","I","F","E","R","R","O","R","(","I","N","D","E","X","(","$",
      "H","$","3",":","$","H","$","2","0","0",","," ","M","A","T","C",
      "H","(","$","E","3",","," ","$","G","$","3",":","$","G","$","2",
      "0","0",","," ","0",")",")",","," ","\"","S","y","s","t","e","m",
      "\"",")">>

CqmRow3Cells ==
    (<<3, 4>> :> StrV(FormulaD3)) @@ (<<3, 5>> :> StrV(FormulaE3))
    @@ (<<3, 6>> :> StrV(FormulaF3))

\* lines 121-124: H3..H202 numbered 1..200
NumberedRows == 200

NumberCells == [cell \in {<<2 + i, 8>> : i \in 1..NumberedRows} |-> IntV(cell[1] - 2)]

\* lines 130-158: the formulas of D3:G3 copied to rows 4..last_row_with_text
CqmCopyDownCells(ws, last_text_row) ==
    [cell \in {<<row, col>> :
                  row \in 4..last_text_row,
                  col \in {c \in 4..7 : IsFormulaValue(ValueAt(ws, 3, c))}} |->
        StrV(RenderDown(ValueAt(ws, 3, cell[2]).s, cell[1] - 3))]

\* s.find(sub) + 1: the position of the first occurrence, 0 when there is none
FindText(sub, s) ==
    LET hits == {p \in 1..(Len(s) - Len(sub) + 1) : SubSeq(s, p, p + Len(sub) - 1) = sub}
    IN IF hits = {} THEN 0 ELSE MinOf(hits)

\* first_char.isalpha() and first_char.isupper()
IsUpperLetter(c) == IsUpper(c)

\* lines 186-192: the marker cut out of a header
CutMarker_earliest(question_marker) ==
    LET cuts == {FindText(sub, question_marker) :
                    sub \in {<<"_">>, <<"n","o","n","e">>, <<"r">>}} \ {0}
    IN IF cuts = {} THEN question_marker
       ELSE SubSeq(question_marker, 1, MinOf(cuts) - 1)

CutMarker(question_marker) ==
    IF FindText(<<"_">>, question_marker) > 0
    THEN SubSeq(question_marker, 1, FindText(<<"_">>, question_marker) - 1)
    ELSE IF FindText(<<"n","o","n","e">>, question_marker) > 0
    THEN SubSeq(question_marker, 1, FindText(<<"n","o","n","e">>, question_marker) - 1)
    ELSE IF FindText(<<"r">>, question_marker) > 0
    THEN SubSeq(question_marker, 1, FindText(<<"r">>, question_marker) - 1)
    ELSE question_marker

\* lines 174-197: the marker the simulation derives from the value of a
\* column-C cell, <<>> when it derives none
SimulatedMarker(header_value) ==
    IF header_value = None THEN <<>>
    ELSE LET header_str == Strip(PyStr(header_value))
         IN IF Len(header_str) > 0 /\ IsUpperLetter(header_str[1])
            THEN LET question_marker == CutMarker(header_str)
                 IN IF Len(question_marker) > 0 /\ question_marker # TextSystem
                    THEN question_marker ELSE <<>>
            ELSE <<>>

\* lines 167-197: unique_values after the rows row..last_row_with_text
RECURSIVE UniqueValues_with_repeats(_, _, _, _)
UniqueValues_with_repeats(ws, row, last_text_row, unique_values) ==
    IF row > last_text_row THEN unique_values
    ELSE LET question_marker == SimulatedMarker(ValueAt(ws, row, 3))
         IN UniqueValues_with_repeats(ws, row + 1, last_text_row,
                                      IF Len(question_marker) > 0
                                      THEN Append(unique_values, question_marker)
                                      ELSE unique_values)

RECURSIVE UniqueValues(_, _, _, _)
UniqueValues(ws, row, last_text_row, unique_values) ==
    IF row > last_text_row THEN unique_values
    ELSE LET question_marker == SimulatedMarker(ValueAt(ws, row, 3))
             seen == {unique_values[k] : k \in DOMAIN unique_values}
         IN UniqueValues(ws, row + 1, last_text_row,
                         IF Len(question_marker) > 0 /\ question_marker \notin seen
                         THEN Append(unique_values, question_marker)
                         ELSE unique_values)

\* lines 203-205: the unique markers written to G3, G4, ...
UniqueCells(unique_list) ==
    [cell \in {<<2 + i, 7>> : i \in 1..Len(unique_list)} |-> StrV(unique_list[cell[1] - 2])]

\* the column-question-map sheet as the step leaves it
CqmSheetSetup(cells, has_raw_data, raw_data_ws) ==
    LET w1 == Write(cells, CqmHeaderCells)
        w2 == IF has_raw_data THEN Write(w1, TransposedCells(CopiedHeaders(raw_data_ws)))
              ELSE w1
        w3 == Write(Write(w2, CqmRow3Cells), NumberCells)
        last_text_row == LastRowWithText(w3)
        w4 == IF last_text_row > 3
              THEN Write(w3, CqmCopyDownCells(w3, last_text_row))
              ELSE w3
    IN Write(w4, UniqueCells(UniqueValues(w4, 3, last_text_row, <<>>)))

\* column_question_map_initial_setup(workbook)
column_question_map_initial_setup(workbook) ==
    IF ~HasSheet(workbook, SHEET_COLUMN_QUESTION_MAP) THEN workbook
    ELSE LET k == SheetIndex(workbook, SHEET_COLUMN_QUESTION_MAP)
             has_raw_data == HasSheet(workbook, SHEET_RAW_DATA)
             raw_data_ws == IF has_raw_data
                            THEN workbook[SheetIndex(workbook, SHEET_RAW_DATA)].cells
                            ELSE EmptySheet
         IN [workbook EXCEPT
                ![k].cells = CqmSheetSetup(workbook[k].cells, has_raw_data, raw_data_ws)]

----------------------------------------------------------------------------
(* One run of main and process_excel_file *)

\* The kinds of row of a calculated data map.  Option rows at position k
\* carry the code k.
PipelineRowKinds == {"sso1", "opt1", "ss2", "open3", "nosig5"}

PipelineRow(kind, k) ==
    CASE kind = "sso1" ->
            [BlankRow EXCEPT !.G = IntV(1), !.H = StrV(TextWithOther), !.N = IntV(1),
                             !.C = StrV(<<"[","S","1","]",":"," ","R","e","g","i","o","n","?">>), !.L = StrV(<<"S","1">>),
                             !.P = StrV(<<"Q","u","e","s","t","i","o","n"," ","T","e","x","t"," ","1">>)]
      [] kind = "opt1" ->
            [BlankRow EXCEPT !.G = IntV(1), !.H = StrV(TextWithOther), !.N = IntV(1),
                             !.D = IntV(k), !.E = StrV(<<"R">> \o IntStr(k)),
                             !.L = StrV(<<"S","1">>), !.P = StrV(<<"S","e","l","e","c","t"," ","O","p","t","i","o","n"," ","1">>)]
      [] kind = "optnolabel1" ->
            [BlankRow EXCEPT !.G = IntV(1), !.H = StrV(TextWithOther), !.N = IntV(1),
                             !.D = IntV(k),
                             !.L = StrV(<<"S","1">>), !.P = StrV(<<"S","e","l","e","c","t"," ","O","p","t","i","o","n"," ","1">>)]
      [] kind = "child1" ->
            [BlankRow EXCEPT !.G = IntV(1), !.H = StrV(TextOtherSpecifyChild),
                             !.N = IntV(2), !.C = StrV(<<"[","S","1","r","6","o","e","]",":"," ","O","t","h","e","r">>),
                             !.L = StrV(<<"S","1">>), !.P = StrV(<<"Q","u","e","s","t","i","o","n"," ","T","e","x","t"," ","2">>)]
      [] kind = "childplain1" ->
            [BlankRow EXCEPT !.G = IntV(1), !.H = StrV(TextOtherSpecifyChild),
                             !.N = IntV(2), !.C = StrV(<<"O","t","h","e","r"," ","(","s","p","e","c","i","f","y",")">>),
                             !.L = StrV(<<"S","1">>), !.P = StrV(<<"Q","u","e","s","t","i","o","n"," ","T","e","x","t"," ","2">>)]
      [] kind = "childempty1" ->
            [BlankRow EXCEPT !.G = IntV(1), !.H = StrV(TextOtherSpecifyChild),
                             !.N = IntV(2), !.L = StrV(<<"S","1">>)]
      [] kind = "childodd1" ->
            [BlankRow EXCEPT !.G = IntV(1), !.H = StrV(TextOtherSpecifyChild),
                             !.N = IntV(2), !.C = StrV(<<" ","[","]"," ","[","S","1","r","6","o","e","]",":"," ","O","t","h","e","r"," ">>),
                             !.L = StrV(<<"S","1">>), !.P = StrV(<<"Q","u","e","s","t","i","o","n"," ","T","e","x","t"," ","2">>)]
      [] kind = "ss2" ->
            [BlankRow EXCEPT !.G = IntV(2), !.H = StrV(TextSimpleSelect), !.N = IntV(3),
                             !.C = StrV(<<"[","S","2","]",":"," ","A","g","e","?">>), !.L = StrV(<<"S","2">>),
                             !.P = StrV(<<"Q","u","e","s","t","i","o","n"," ","T","e","x","t"," ","3">>)]
      [] kind = "opt2" ->
            [BlankRow EXCEPT !.G = IntV(2), !.H = StrV(TextSimpleSelect), !.N = IntV(3),
                             !.D = IntV(k), !.E = StrV(<<"A">> \o IntStr(k)),
                             !.L = StrV(<<"S","2">>), !.P = StrV(<<"S","e","l","e","c","t"," ","O","p","t","i","o","n"," ","3">>)]
      [] kind = "open3" ->
            [BlankRow EXCEPT !.G = IntV(3), !.H = StrV(<<"0",","," ","O","p","e","n"," ","T","e","x","t",","," ","0",","," ","0",","," ",","," ","0",","," ","0",","," ","0",","," ","0",","," ","0">>),
                             !.N = IntV(4), !.C = StrV(<<"[","S","3","]",":"," ","W","h","y","?">>), !.L = StrV(<<"S","3">>),
                             !.P = StrV(<<"Q","u","e","s","t","i","o","n"," ","T","e","x","t"," ","4">>)]
      [] kind = "near4" ->
            [BlankRow EXCEPT !.G = IntV(4), !.H = StrV(<<"0",","," ","0",","," ","0",","," ","S","i","m","p","l","e"," ","S","e","l","e","c","t",","," ","0",","," ","0",","," ","0",","," ","0",","," ","0",","," ","0">>),
                             !.N = IntV(5), !.C = StrV(<<"[","S","4","]",":"," ","S","i","z","e","?">>), !.L = StrV(<<"S","4">>),
                             !.P = StrV(<<"Q","u","e","s","t","i","o","n"," ","T","e","x","t"," ","5">>)]
      [] kind = "system" ->
            [BlankRow EXCEPT !.G = StrV(TextSystem), !.H = StrV(<<"1",","," ","0",","," ","0",","," ","0",","," ",","," ","0",","," ","0",","," ","0",","," ","0",","," ","0">>),
                             !.N = IntV(6), !.C = StrV(<<"[","r","e","c","o","r","d","]",":"," ","R","e","c","o","r","d">>),
                             !.L = StrV(TextSystem), !.P = StrV(<<"Q","u","e","s","t","i","o","n"," ","T","e","x","t"," ","6">>)]
      [] kind = "nosig5" ->
            [BlankRow EXCEPT !.G = IntV(5), !.N = IntV(7)]

PipelineMapOfKinds(kinds) == [k \in 1..Len(kinds) |-> PipelineRow(kinds[k], k)]

\* a data map with a question of each type, its options and its child
FullMap ==
    PipelineMapOfKinds(<<"system", "sso1", "opt1", "opt1", "child1", "ss2", "opt2",
                         "open3", "near4", "nosig5">>)

\* data maps whose "Other Specify Child" row has no bracketed identifier, an
\* empty column C, or an empty pair of brackets before the identifier
ChildMaps ==
    {PipelineMapOfKinds(<<"sso1", "opt1", "childplain1">>),
     PipelineMapOfKinds(<<"sso1", "childempty1", "child1">>),
     PipelineMapOfKinds(<<"sso1", "opt1", "childodd1">>)}

\* a with-other question whose second option has a code and no label
BlankLabelMap == PipelineMapOfKinds(<<"sso1", "opt1", "optnolabel1", "opt1">>)

PipelineMaps ==
    {FullMap, BlankLabelMap}
    \cup ChildMaps
    \cup {PipelineMapOfKinds(kinds) :
            kinds \in UNION {[1..n -> PipelineRowKinds] : n \in 0..MaxPipelineRows}}

\* the raw-data sheet of an input file: the column headers in row 1
RawDataHeaders == <<TextRecord, <<"S","1">>, <<"S","1","r","6","o","e">>, <<"S","2">>>>

RawDataInput(title) ==
    [title |-> title,
     cells |-> [cell \in {<<1, c>> : c \in 1..Len(RawDataHeaders)} |->
                   StrV(RawDataHeaders[cell[2]])]]

\* the data-map sheet of an input file: columns A, B and C hold what the
\* setup moves to C, D and E
DataMapInput(title, map) ==
    [title |-> title,
     cells |-> LET filled == {cell \in (1..Len(map)) \X (1..3) :
                                 (CASE cell[2] = 1 -> map[cell[1]].C
                                    [] cell[2] = 2 -> map[cell[1]].D
                                    [] cell[2] = 3 -> map[cell[1]].E) # None}
               IN [cell \in filled |->
                      CASE cell[2] = 1 -> map[cell[1]].C
                        [] cell[2] = 2 -> map[cell[1]].D
                        [] cell[2] = 3 -> map[cell[1]].E]]

\* a tab Q2 left in the workbook by an earlier run
EarlierTab ==
    [title |-> tab_name(2),
     cells |-> (<<1, 1>> :> IntV(2)) @@ (<<2, 1>> :> StrV(<<"N","o"," ","d","a","t","a"," ","f","o","u","n","d"," ","f","o","r"," ","q","u","e","s","t","i","o","n"," ","2">>))]

\* a sheet of the input file whose name is q2, in lower case
LowerCaseTab ==
    [title |-> <<"q","2">>,
     cells |-> (<<1, 1>> :> StrV(<<"n","o","t","e","s">>))]

TitleA == <<"A">>
TitleDatamap == <<"D","a","t","a","m","a","p">>
TitleSheet1 == <<"S","h","e","e","t","1">>

\* the names a raw-data or data-map sheet may come under
RawDataTitles == {TitleA, <<"R","a","w"," ","D","a","t","a">>, <<"r","a","w","d","a","t","a">>, SHEET_RAW_DATA}
DataMapTitles == {TitleDatamap, <<"D","a","t","a"," ","M","a","p">>, <<"D","a","t","a","M","a","p">>, SHEET_DATA_MAP}

SuffixXlsx == <<".","x","l","s","x">>
Suffixes == {SuffixXlsx, <<".","X","L","S","X">>, <<".","x","l","s">>, <<".","x","l","s","m">>, <<".","c","s","v">>, <<>>}

\* a small data map for the runs on differently named sheets
SmallMap == PipelineMapOfKinds(<<"sso1", "opt1">>)

\* the values Excel gives column G when the column question map has no
\* headers to match: the error text of MATCH
NoQuestionNumbers(map) ==
    [k \in DOMAIN map |-> [map[k] EXCEPT !.G = StrV(<<"#","N","/","A">>)]]

InputFile(suffix, map, workbook) ==
    [file |-> [exists |-> TRUE, suffix |-> suffix, sheets |-> workbook], map |-> map]

\* the input files a run starts from and, with each, the rows Excel computes
\* for its data map: every data map under the usual names, workbooks with a
\* tab of an earlier run, without a data map, without raw data, under other
\* sheet names, under other suffixes, and a path with no file
PipelineInputs ==
    {InputFile(SuffixXlsx, m, <<RawDataInput(TitleA), DataMapInput(TitleDatamap, m)>>) :
        m \in PipelineMaps}
    \cup {InputFile(SuffixXlsx, FullMap,
                    <<RawDataInput(TitleA), DataMapInput(TitleDatamap, FullMap), EarlierTab>>),
          InputFile(SuffixXlsx, <<>>, <<RawDataInput(TitleA)>>),
          InputFile(SuffixXlsx, <<>>, <<RawDataInput(TitleA), EarlierTab>>),
          InputFile(SuffixXlsx, <<>>, <<RawDataInput(TitleA), LowerCaseTab>>),
          InputFile(SuffixXlsx, NoQuestionNumbers(SmallMap),
                    <<[title |-> TitleSheet1, cells |-> EmptySheet],
                      DataMapInput(TitleDatamap, SmallMap)>>)}
    \cup {InputFile(SuffixXlsx, SmallMap, <<RawDataInput(r), DataMapInput(d, SmallMap)>>) :
            r \in RawDataTitles, d \in DataMapTitles}
    \cup {InputFile(suffix, SmallMap,
                    <<RawDataInput(TitleA), DataMapInput(TitleDatamap, SmallMap)>>) :
            suffix \in Suffixes}
    \cup {[file |-> [exists |-> FALSE, suffix |-> suffix, sheets |-> <<>>], map |-> <<>>] :
            suffix \in {SuffixXlsx, <<".","c","s","v">>}}

\* main has parsed its arguments and calls process_excel_file (main.py line
\* 36); dataMap is set when the workbook is reloaded
PipelineInit ==
    /\ RenderIdle
    /\ LookupIdle
    /\ ExtractIdle
    /\ VersionIdle
    /\ MarkerIdle
    /\ exitCode = -1
    /\ printed = <<>>
    /\ exc = <<>>
    /\ pc = "load"
    /\ slot = 0
    /\ raising = FALSE
    /\ frames = <<>>
    /\ faultAt = 0
    /\ caught = {}
    /\ win32 \in BOOLEAN
    /\ \E input \in PipelineInputs :
          /\ inFile = input.file
          /\ fileMap = input.map
    /\ hasDataMap = FALSE
    /\ sheets = <<>>
    /\ dataMap = <<>>
    /\ disk = [formulas |-> "absent", output |-> "absent"]
    /\ calcResult = "not_run"
    /\ dispatched = [i \in 1..NumQuestions |-> "pending"]

\* line 41: the suffixes load_raw_excel_file accepts, compared in lower case
EXCEL_SUFFIXES_with_csv == {<<".","x","l","s","x">>, <<".","x","l","s","m">>, <<".","x","l","s">>, <<".","c","s","v">>}

EXCEL_SUFFIXES == {<<".","x","l","s","x">>, <<".","x","l","s","m">>, <<".","x","l","s">>}

\* load_raw_excel_file, lines 37-46: the workbook is loaded
LoadWorkbook ==
    /\ pc = "load" /\ ~raising
    /\ inFile.exists
    /\ Lower(inFile.suffix) \in EXCEL_SUFFIXES
    /\ sheets' = inFile.sheets
    /\ pc' = "initial_set_up"
    /\ UNCHANGED <<slot, raising, frames, faultAt, caught, win32, hasDataMap, fileMap,
                   dataMap, disk, calcResult, dispatched, rnVars, lkVars, exVars, vfVars, smVars,
                   mainVars, exc>>

\* load_raw_excel_file, lines 39-46: FileNotFoundError, ValueError, or
\* load_workbook raising on a file it cannot read
LoadFault ==
    /\ pc = "load" /\ ~raising
    /\ exc' = IF ~inFile.exists THEN <<"File not found: ", "input_file">>
              ELSE IF Lower(inFile.suffix) \notin EXCEL_SUFFIXES
                   THEN <<"Not a valid Excel file: ", "input_file">>
                   ELSE <<"load_workbook">>
    /\ raising' = TRUE
    /\ frames' = <<"process_excel_file", "load_raw_excel_file">>
    /\ UNCHANGED <<pc, slot, faultAt, caught, win32, hasDataMap, fileMap, dataMap, sheets,
                   disk, calcResult, dispatched, rnVars, lkVars, exVars, vfVars, smVars, mainVars>>

\* line 175: initial_set_up(workbook)
InitialSetUp ==
    /\ pc = "initial_set_up" /\ ~raising
    /\ sheets' = initial_set_up(sheets)
    /\ pc' = "raw_data_setup"
    /\ UNCHANGED <<slot, raising, frames, faultAt, caught, win32, hasDataMap, fileMap,
                   dataMap, disk, calcResult, dispatched, rnVars, lkVars, exVars, vfVars, smVars,
                   mainVars, exc>>

\* line 178: raw_data_initial_setup(workbook)
RawDataSetup ==
    /\ pc = "raw_data_setup" /\ ~raising
    /\ sheets' = raw_data_initial_setup(sheets)
    /\ pc' = "data_map_setup"
    /\ UNCHANGED <<slot, raising, frames, faultAt, caught, win32, hasDataMap, fileMap,
                   dataMap, disk, calcResult, dispatched, rnVars, lkVars, exVars, vfVars, smVars,
                   mainVars, exc>>

\* line 181: data_map_initial_setup(workbook)
DataMapSetup ==
    /\ pc = "data_map_setup" /\ ~raising
    /\ sheets' = data_map_initial_setup(sheets)
    /\ pc' = "cqm_setup"
    /\ UNCHANGED <<slot, raising, frames, faultAt, caught, win32, hasDataMap, fileMap,
                   dataMap, disk, calcResult, dispatched, rnVars, lkVars, exVars, vfVars, smVars,
                   mainVars, exc>>

\* line 184: column_question_map_initial_setup(workbook)
ColumnQuestionMapSetup ==
    /\ pc = "cqm_setup" /\ ~raising
    /\ sheets' = column_question_map_initial_setup(sheets)
    /\ pc' = "save_formulas"
    /\ UNCHANGED <<slot, raising, frames, faultAt, caught, win32, hasDataMap, fileMap,
                   dataMap, disk, calcResult, dispatched, rnVars, lkVars, exVars, vfVars, smVars,
                   mainVars, exc>>

\* the setup step the run is at and the sheet it works on
SetupStep(at) ==
    CASE at = "initial_set_up" -> "initial_set_up"
      [] at = "raw_data_setup" -> "raw_data_initial_setup"
      [] at = "data_map_setup" -> "data_map_initial_setup"
      [] at = "cqm_setup" -> "column_question_map_initial_setup"

SetupSheet(at) ==
    CASE at = "raw_data_setup" -> SHEET_RAW_DATA
      [] at = "data_map_setup" -> SHEET_DATA_MAP
      [] at = "cqm_setup" -> SHEET_COLUMN_QUESTION_MAP

\* a call on the workbook raises inside a setup step: inside initial_set_up
\* anywhere, inside the others after the early return for a missing sheet
SetupFault ==
    /\ pc \in {"initial_set_up", "raw_data_setup", "data_map_setup", "cqm_setup"}
    /\ ~raising
    /\ pc # "initial_set_up" => HasSheet(sheets, SetupSheet(pc))
    /\ raising' = TRUE
    /\ exc' = <<SetupStep(pc)>>
    /\ frames' = <<"process_excel_file", SetupStep(pc)>>
    /\ UNCHANGED <<pc, slot, faultAt, caught, win32, hasDataMap, fileMap, dataMap, sheets,
                   disk, calcResult, dispatched, rnVars, lkVars, exVars, vfVars, smVars, mainVars>>

\* line 197: the intermediate workbook with formulas is saved
SaveFormulas ==
    /\ pc = "save_formulas" /\ ~raising
    /\ disk' = [disk EXCEPT !.formulas = "written"]
    /\ pc' = "save"
    /\ UNCHANGED <<slot, raising, frames, faultAt, caught, win32, hasDataMap, fileMap,
                   dataMap, sheets, calcResult, dispatched, rnVars, lkVars, exVars, vfVars, smVars, mainVars, exc>>

\* line 201: the workbook is saved to output_path
SaveOutput_then_reload ==
    /\ pc = "save" /\ ~raising
    /\ disk' = [disk EXCEPT !.output = "uncalculated"]
    /\ pc' = "reload"
    /\ UNCHANGED <<slot, raising, frames, faultAt, caught, win32, hasDataMap, fileMap,
                   dataMap, sheets, calcResult, dispatched, rnVars, lkVars, exVars, vfVars, smVars, mainVars, exc>>

SaveOutput ==
    /\ pc = "save" /\ ~raising
    /\ disk' = [disk EXCEPT !.output = "uncalculated"]
    /\ pc' = "calculate"
    /\ UNCHANGED <<slot, raising, frames, faultAt, caught, win32, hasDataMap, fileMap,
                   dataMap, sheets, calcResult, dispatched, rnVars, lkVars, exVars, vfVars, smVars, mainVars, exc>>

\* workbook.save raises inside save_processed_excel (lines 197, 201, 213)
SaveFault ==
    /\ pc \in {"save_formulas", "save", "final_save"} /\ ~raising
    /\ raising' = TRUE
    /\ exc' = <<"s","a","v","e">>
    /\ frames' = <<"process_excel_file", "save_processed_excel">>
    /\ UNCHANGED <<pc, slot, faultAt, caught, win32, hasDataMap, fileMap, dataMap, sheets,
                   disk, calcResult, dispatched, rnVars, lkVars, exVars, vfVars, smVars, mainVars>>

\* calculate_excel_formulas, lines 25-27: win32com is not available
CalculateSkipped ==
    /\ pc = "calculate" /\ ~raising /\ calcResult = "not_run"
    /\ ~win32
    /\ calcResult' = "unavailable"
    /\ pc' = "reload"
    /\ UNCHANGED <<slot, raising, frames, faultAt, caught, win32, hasDataMap, fileMap,
                   dataMap, sheets, disk, dispatched, rnVars, lkVars, exVars, vfVars, smVars, mainVars, exc>>

\* calculate_excel_formulas, lines 29-57: Excel calculates and saves the file
CalculateCompletes ==
    /\ pc = "calculate" /\ ~raising /\ calcResult = "not_run"
    /\ win32
    /\ disk' = [disk EXCEPT !.output = "calculated"]
    /\ calcResult' = "success"
    /\ pc' = "reload"
    /\ UNCHANGED <<slot, raising, frames, faultAt, caught, win32, hasDataMap, fileMap,
                   dataMap, sheets, dispatched, rnVars, lkVars, exVars, vfVars, smVars, mainVars, exc>>

\* calculate_excel_formulas, lines 29-57: a call raises, before or after
\* workbook.Save()
CalculateFault ==
    /\ pc = "calculate" /\ ~raising /\ calcResult = "not_run"
    /\ win32
    /\ \E saved \in BOOLEAN :
          /\ disk' = IF saved THEN [disk EXCEPT !.output = "calculated"] ELSE disk
          /\ calcResult' = IF saved THEN "error_after_save" ELSE "error_before_save"
    /\ raising' = TRUE
    /\ exc' = <<"c","a","l","c","u","l","a","t","e">>
    /\ frames' = <<"process_excel_file", "calculate_excel_formulas">>
    /\ UNCHANGED <<pc, slot, faultAt, caught, win32, hasDataMap, fileMap, dataMap, sheets,
                   dispatched, rnVars, lkVars, exVars, vfVars, smVars, mainVars>>

\* load_workbook(output_path, data_only=True): a formula cell is read as its
\* cached value.  The cached values of the data map are dataMap; the sheets
\* keep the cells that hold no formula.
DataOnly(workbook) ==
    [k \in DOMAIN workbook |->
        [workbook[k] EXCEPT
            !.cells = LET ws == workbook[k].cells
                          kept == {cell \in DOMAIN ws : ~IsFormulaValue(ws[cell])}
                      IN [cell \in kept |-> ws[cell]]]]

\* line 207, and lines 210, 86, 102-110: the workbook is reloaded with
\* data_only=True and create_question_tabs is entered
Reload ==
    /\ pc = "reload" /\ ~raising
    /\ hasDataMap' = HasSheet(sheets, SHEET_DATA_MAP)
    /\ dataMap' = IF ~HasSheet(sheets, SHEET_DATA_MAP) THEN <<>>
                  ELSE IF disk.output = "calculated" THEN fileMap
                  ELSE Uncached(fileMap)
    /\ sheets' = DataOnly(sheets)
    /\ pc' = "tabs"
    /\ slot' = 1
    /\ UNCHANGED <<raising, frames, faultAt, caught, win32, fileMap,
                   disk, calcResult, dispatched, rnVars, lkVars, exVars, vfVars, smVars, mainVars, exc>>

\* line 207: load_workbook raises
ReloadFault ==
    /\ pc = "reload" /\ ~raising
    /\ raising' = TRUE
    /\ exc' = <<"r","e","l","o","a","d">>
    /\ frames' = <<"process_excel_file">>
    /\ UNCHANGED <<pc, slot, faultAt, caught, win32, hasDataMap, fileMap, dataMap, sheets,
                   disk, calcResult, dispatched, rnVars, lkVars, exVars, vfVars, smVars, mainVars>>

\* lines 113-149: one iteration of the loop, its builder returning
CreateQuestionTab ==
    /\ pc = "tabs" /\ ~raising
    /\ LET builder == BuilderOf(slot, hasDataMap, dataMap)
           question_ws == TabHeader(slot, hasDataMap, dataMap)
       IN /\ sheets' = create_sheet(RemoveExisting(sheets, slot), tab_name(slot),
                                    Build(builder, question_ws, slot, hasDataMap, dataMap))
          /\ dispatched' = [dispatched EXCEPT ![slot] = builder]
    /\ slot' = slot + 1
    /\ pc' = IF slot = NumQuestions THEN "final_save" ELSE "tabs"
    /\ UNCHANGED <<raising, frames, faultAt, caught, win32, hasDataMap, fileMap, dataMap,
                   disk, calcResult, rnVars, lkVars, exVars, vfVars, smVars, mainVars, exc>>

\* lines 113-140: one iteration of the loop, a call inside its builder raising
BuildFault ==
    /\ pc = "tabs" /\ ~raising
    /\ LET builder == BuilderOf(slot, hasDataMap, dataMap)
           question_ws == TabHeader(slot, hasDataMap, dataMap)
       IN /\ builder # "none"
          /\ \E stage \in 0..2 :
                sheets' = create_sheet(RemoveExisting(sheets, slot), tab_name(slot),
                                       PartialBuild(builder, stage, question_ws,
                                                    slot, hasDataMap, dataMap))
          /\ dispatched' = [dispatched EXCEPT ![slot] = builder]
          /\ frames' = <<"process_excel_file", "question_cutting_processor",
                         "create_question_tabs", builder>>
    /\ raising' = TRUE
    /\ exc' = <<"b","u","i","l","d">>
    /\ faultAt' = slot
    /\ UNCHANGED <<pc, slot, caught, win32, hasDataMap, fileMap, dataMap, disk, calcResult,
                   rnVars, lkVars, exVars, vfVars, smVars, mainVars>>

\* the slots at which the signature lookup is let raise
LookupFaultSlots == {1}

\* lines 113-129: one iteration of the loop, a cell access inside
\* find_question_column_h_text raising; the tab holds A1 by then
LookupFault ==
    /\ pc = "tabs" /\ ~raising
    /\ hasDataMap
    /\ slot \in LookupFaultSlots
    /\ sheets' = create_sheet(RemoveExisting(sheets, slot), tab_name(slot),
                              (<<1, 1>> :> IntV(slot)))
    /\ raising' = TRUE
    /\ exc' = <<"l","o","o","k","u","p">>
    /\ frames' = <<"process_excel_file", "question_cutting_processor",
                   "create_question_tabs", "find_question_column_h_text">>
    /\ UNCHANGED <<pc, slot, faultAt, caught, win32, hasDataMap, fileMap, dataMap, disk,
                   calcResult, dispatched, rnVars, lkVars, exVars, vfVars, smVars, mainVars>>

\* data_map_extractor.py lines 171-173 and pipeline.py lines 130, 142-148:
\* the except clause of find_question_column_h_text returns None, the loop
\* writes the placeholder to A2 and goes on to the next slot
LookupReturnsNone ==
    /\ raising /\ frames # <<>>
    /\ frames[Len(frames)] = "find_question_column_h_text"
    /\ ExceptHandler("find_question_column_h_text") = "swallow"
    /\ raising' = FALSE
    /\ frames' = <<>>
    /\ exc' = <<>>
    /\ caught' = caught \cup {slot}
    /\ sheets' = [sheets EXCEPT ![Len(sheets)].cells =
                      (<<1, 1>> :> IntV(slot))
                      @@ (<<2, 1>> :> StrV(<<"N","o"," ","d","a","t","a"," ","f","o","u","n","d"," ","f","o","r"," ","q","u","e","s","t","i","o","n"," ">> \o IntStr(slot)))]
    /\ dispatched' = [dispatched EXCEPT ![slot] = "none"]
    /\ pc' = AfterReturn("find_question_column_h_text", pc, slot)
    /\ slot' = slot + 1
    /\ UNCHANGED <<faultAt, win32, hasDataMap, fileMap, dataMap, disk, calcResult,
                   rnVars, lkVars, exVars, vfVars, smVars, mainVars>>

\* line 213: the final save
FinalSave ==
    /\ pc = "final_save" /\ ~raising
    /\ disk' = [disk EXCEPT !.output = "final"]
    /\ pc' = "done"
    /\ UNCHANGED <<slot, raising, frames, faultAt, caught, win32, hasDataMap, fileMap,
                   dataMap, sheets, calcResult, dispatched, rnVars, lkVars, exVars, vfVars, smVars, mainVars, exc>>

\* the exception in flight reaches the except clause of the innermost call it
\* has not left: the clause re-raises it to the caller, or ends it and the
\* caller goes on after the call
Unwind ==
    /\ raising /\ frames # <<>>
    /\ frames[Len(frames)] # "find_question_column_h_text"
    /\ LET frame == frames[Len(frames)]
       IN IF ExceptHandler(frame) = "reraise"
          THEN /\ frames' = SubSeq(frames, 1, Len(frames) - 1)
               /\ UNCHANGED <<pc, slot, raising, exc>>
          ELSE /\ frames' = <<>>
               /\ raising' = FALSE
               /\ exc' = <<>>
               /\ pc' = AfterReturn(frame, pc, slot)
               /\ slot' = IF pc = "tabs" THEN slot + 1 ELSE slot
    /\ UNCHANGED <<faultAt, caught, win32, hasDataMap, fileMap, dataMap, sheets, disk,
                   calcResult, dispatched, rnVars, lkVars, exVars, vfVars, smVars, mainVars>>

\* main.py lines 35-42: process_excel_file has returned or raised
MainReturns ==
    /\ exitCode = -1
    /\ \/ pc = "done" /\ ~raising
       \/ raising /\ frames = <<>>
    /\ exitCode' = IF raising THEN 1 ELSE 0
    /\ printed' = IF raising THEN <<"Error: ">> \o exc
                  ELSE <<"Successfully processed: ", "input_file", " -> ", "output_file">>
    /\ UNCHANGED <<inFile, exc, pc, slot, raising, frames, faultAt, caught, win32, hasDataMap,
                   fileMap, dataMap, sheets, disk, calcResult, dispatched,
                   rnVars, lkVars, exVars, vfVars, smVars>>

Next ==
    \/ LoadWorkbook
    \/ LoadFault
    \/ InitialSetUp
    \/ RawDataSetup
    \/ DataMapSetup
    \/ ColumnQuestionMapSetup
    \/ SetupFault
    \/ MainReturns
    \/ SaveFormulas
    \/ SaveOutput
    \/ SaveFault
    \/ CalculateSkipped
    \/ CalculateCompletes
    \/ CalculateFault
    \/ Reload
    \/ ReloadFault
    \/ CreateQuestionTab
    \/ BuildFault
    \/ LookupFault
    \/ LookupReturnsNone
    \/ FinalSave
    \/ Unwind

Spec == PipelineInit /\ [][Next]_vars

\* the run has ended with the exception propagated out of process_excel_file
Aborted == raising /\ frames = <<>>

\* the sheets of the workbook titled Q<i>
TabsNamed(i) == {k \in DOMAIN sheets : sheets[k].title = tab_name(i)}

\* the cells of the tab Q<i>
TabCells(i) == sheets[CHOOSE k \in TabsNamed(i) : TRUE].cells

----------------------------------------------------------------------------
(* The tabs of a run *)

\* the signatures as the classification rule names them
SignatureWithOther == <<"0",","," ","0",","," ","0",","," ","S","i","m","p","l","e"," ","S","e","l","e","c","t",","," ",","," ","0",","," ","0",","," ","0",","," ","0",","," ","O","t","h","e","r"," ","S","p","e","c","i","f","y"," ","P","a","r","e","n","t">>
SignatureSimpleSelect == <<"0",","," ","0",","," ","0",","," ","S","i","m","p","l","e"," ","S","e","l","e","c","t",","," ",","," ","0",","," ","0",","," ","0",","," ","0",","," ","0">>

\* slot i has a marker row in the data map the tabs are built from
HasMarkerRow(i) == hasDataMap /\ MarkerRows(dataMap, i) # {}

\* the type signature of slot i: column H of its lowest marker row
SignatureCell(i) == CellOf(dataMap, LowestMarkerRow(dataMap, i), "H")

\* the signature lookup of slot i finds nothing
LookupFindsNothing(i) ==
    \/ ~HasMarkerRow(i)
    \/ ~Truthy(SignatureCell(i))
    \/ i \in caught

\* the tab of a slot no builder ran on: A1 and A2 only
BareTab(i, a2) == (<<1, 1>> :> IntV(i)) @@ (<<2, 1>> :> StrV(a2))

\* C2: classification is total and literal.  A slot whose signature is the
\* with-other literal is handed to cut_single_select_with_other, one whose
\* signature is the simple-select literal to cut_single_select, and a slot
\* with any other non-empty signature to no builder: no exception is raised
\* for it and its tab holds A1 and A2 only.
C2_Classification ==
    \A i \in 1..NumQuestions :
        (dispatched # <<>> /\ dispatched[i] # "pending" /\ ~LookupFindsNothing(i)) =>
            LET signature == Strip(PyStr(SignatureCell(i)))
            IN /\ signature = SignatureWithOther =>
                      dispatched[i] = "cut_single_select_with_other"
               /\ signature = SignatureSimpleSelect =>
                      dispatched[i] = "cut_single_select"
               /\ (signature \notin {SignatureWithOther, SignatureSimpleSelect}
                   /\ Len(signature) > 0) =>
                      /\ dispatched[i] = "none"
                      /\ faultAt # i
                      /\ TabsNamed(i) # {}
                      /\ TabCells(i) = BareTab(i, signature)

\* a finished run over the full data map: slot 1 went to the with-other
\* builder, slot 2 to the single-select builder, the open-text slot 3 and the
\* near-miss signature of slot 4 to none
C2_Witness ==
    /\ pc = "done"
    /\ dataMap = FullMap
    /\ dispatched[1] = "cut_single_select_with_other"
    /\ dispatched[2] = "cut_single_select"
    /\ dispatched[3] = "none"
    /\ dispatched[4] = "none"
    /\ TabCells(3) = BareTab(3, <<"0",","," ","O","p","e","n"," ","T","e","x","t",","," ","0",","," ","0",","," ",","," ","0",","," ","0",","," ","0",","," ","0",","," ","0">>)
    /\ Cardinality(DOMAIN TabCells(1)) > 2
    /\ Cardinality(DOMAIN TabCells(2)) > 2

\* the placeholder of a slot whose lookup finds nothing
Placeholder(i) ==
    IF hasDataMap THEN <<"N","o"," ","d","a","t","a"," ","f","o","u","n","d"," ","f","o","r"," ","q","u","e","s","t","i","o","n"," ">> \o IntStr(i)
    ELSE <<"D","a","t","a"," ","m","a","p"," ","n","o","t"," ","a","v","a","i","l","a","b","l","e">>

\* C7: while create_question_tabs has not raised, every slot it has gone
\* through is populated: the workbook holds exactly one sheet named Q<i>, with
\* A1 = i; and when the signature lookup finds nothing, no builder ran and the
\* tab holds the placeholder in A2 and nothing else besides A1.
C7_SlotsPopulated ==
    (pc \in {"tabs", "final_save", "done"} /\ faultAt = 0) =>
        \A i \in 1..(slot - 1) :
            /\ Cardinality(TabsNamed(i)) = 1
            /\ ValueAt(TabCells(i), 1, 1) = IntV(i)
            /\ LookupFindsNothing(i) =>
                  /\ dispatched[i] = "none"
                  /\ TabCells(i) = BareTab(i, Placeholder(i))

\* all ten slots done on a workbook that came with a tab Q2 of an earlier
\* run and has no data map: ten placeholders, one sheet per name
C7_Witness ==
    /\ pc = "final_save"
    /\ slot = NumQuestions + 1
    /\ ~hasDataMap
    /\ Len(sheets) = NumQuestions + 3
    /\ sheets[1].title = SHEET_RAW_DATA
    /\ sheets[4].title = tab_name(1)
    /\ TabCells(2) = BareTab(2, <<"D","a","t","a"," ","m","a","p"," ","n","o","t"," ","a","v","a","i","l","a","b","l","e">>)

\* C8: no per-question isolation.  Once the builder of slot k has raised, the
\* exception stays in flight through every handler: no tab of a later slot is
\* created and the final save is not executed.
C8_NoIsolation ==
    faultAt # 0 =>
        /\ raising
        /\ pc = "tabs"
        /\ slot = faultAt
        /\ \A i \in (faultAt + 1)..NumQuestions :
              /\ dispatched[i] = "pending"
              /\ \A k \in TabsNamed(i) : sheets[k] = EarlierTab
        /\ disk.output # "final"

\* the builder of slot 1 raised and the exception has left
\* process_excel_file: the tab Q2 of the earlier run was not rebuilt
C8_Witness ==
    /\ faultAt = 1
    /\ Aborted
    /\ dispatched[1] = "cut_single_select_with_other"
    /\ TabsNamed(1) # {}
    /\ \E k \in TabsNamed(2) : sheets[k] = EarlierTab
    /\ disk.output = "calculated"

\* C9: the recalculation fails softly.  Whatever happens inside
\* calculate_excel_formulas, an exception raised there does not leave it, and
\* the run goes on from the call to the reload of the workbook.
C9_SoftRecalculation ==
    [][pc = "calculate" =>
          \/ pc' = "reload" /\ ~raising'
          \/ /\ pc' = "calculate" /\ raising'
             /\ Len(frames') > 0
             /\ frames'[Len(frames')] = "calculate_excel_formulas"]_vars

\* a run whose recalculation raised before Excel saved the file, and which
\* went on through the reload and the ten tabs to the final save
C9_Witness ==
    /\ pc = "done"
    /\ calcResult = "error_before_save"
    /\ slot = NumQuestions + 1
    /\ \A i \in 1..NumQuestions : Cardinality(TabsNamed(i)) = 1
    /\ disk.output = "final"

----------------------------------------------------------------------------
(* The "other specify" cells of a tab *)

\* the builder of slot i has returned
Built(i, builder) ==
    /\ dispatched # <<>>
    /\ dispatched[i] = builder
    /\ faultAt # i

\* the rows holding the marker of slot i and the "Other Specify Child"
\* signature
ChildRows(i) ==
    {r \in DataStartRow..MaxRowOf(dataMap) :
        /\ CellOf(dataMap, r, "G") # None
        /\ Strip(PyStr(CellOf(dataMap, r, "G"))) = IntStr(i)
        /\ CellOf(dataMap, r, "H") # None
        /\ Strip(PyStr(CellOf(dataMap, r, "H"))) = TextOtherSpecifyChild}

\* the text of the first child row, "" when its column C is empty
ChildText(i) ==
    LET c == CellOf(dataMap, MinOf(ChildRows(i)), "C")
    IN IF Truthy(c) THEN Strip(PyStr(c)) ELSE <<>>

\* the bracket pairs of s that enclose at least one character and no "]"
BracketPairs(s) ==
    {ab \in (1..Len(s)) \X (1..Len(s)) :
        /\ s[ab[1]] = "[" /\ s[ab[2]] = "]" /\ ab[2] > ab[1] + 1
        /\ \A k \in (ab[1] + 1)..(ab[2] - 1) : s[k] # "]"}

\* the identifier inside the leftmost such pair
Identifier(s) ==
    LET ab == CHOOSE x \in BracketPairs(s) : \A y \in BracketPairs(s) : x[1] <= y[1]
    IN SubSeq(s, ab[1] + 1, ab[2] - 1)

ContainsText(s, sub) ==
    \E p \in 1..(Len(s) - Len(sub) + 1) : SubSeq(s, p, p + Len(sub) - 1) = sub

\* Q4 holds the identifier and Q6 the FILTER template that refers to $Q$4
IdentifierCells(i) ==
    /\ ValueAt(TabCells(i), 4, 17) = StrV(Identifier(ChildText(i)))
    /\ HasCell(TabCells(i), 6, 17)
    /\ ValueAt(TabCells(i), 6, 17).t = "str"
    /\ SubSeq(ValueAt(TabCells(i), 6, 17).s, 1, 9) = <<"'","=","F","I","L","T","E","R","(">>
    /\ ContainsText(ValueAt(TabCells(i), 6, 17).s, <<"M","A","T","C","H","(","$","Q","$","4",",">>)

NoOtherSpecifyCells(i) == \A row \in {2, 4, 6} : ~HasCell(TabCells(i), row, 17)

\* C12 as stated: every tab built for the with-other signature has the
\* child's bracketed identifier in Q4 and the FILTER template in Q6; a tab
\* built for the plain single-select signature has no Q2, Q4 or Q6.
C12_RicherTab ==
    \A i \in 1..NumQuestions :
        /\ Built(i, "cut_single_select_with_other") =>
              /\ ChildRows(i) # {}
              /\ BracketPairs(ChildText(i)) # {}
              /\ IdentifierCells(i)
        /\ Built(i, "cut_single_select") => NoOtherSpecifyCells(i)

\* C12 amended: a tab built for the with-other signature has the identifier
\* in Q4 and the FILTER template in Q6 when the first row with the question's
\* marker and the child signature has a column C text with a bracketed
\* identifier, and then Q2 holds that text; otherwise Q4 and Q6 stay empty.
\* A tab built for the plain single-select signature has no Q2, Q4 or Q6.
C12_RicherTabAmended ==
    \A i \in 1..NumQuestions :
        /\ Built(i, "cut_single_select_with_other") =>
              IF ChildRows(i) # {} /\ BracketPairs(ChildText(i)) # {}
              THEN /\ ValueAt(TabCells(i), 2, 17) = StrV(ChildText(i))
                   /\ IdentifierCells(i)
              ELSE /\ ~HasCell(TabCells(i), 4, 17)
                   /\ ~HasCell(TabCells(i), 6, 17)
        /\ Built(i, "cut_single_select") => NoOtherSpecifyCells(i)

\* the full data map: Q1 has the identifier S1r6oe in Q4 and the template in
\* Q6, and the plain tab Q2 has no column Q
C12_Witness ==
    /\ pc = "done"
    /\ dataMap = FullMap
    /\ Built(1, "cut_single_select_with_other")
    /\ ValueAt(TabCells(1), 4, 17) = StrV(<<"S","1","r","6","o","e">>)
    /\ ValueAt(TabCells(1), 6, 17) = StrV(filter_formula)
    /\ Built(2, "cut_single_select")
    /\ NoOtherSpecifyCells(2)

----------------------------------------------------------------------------
(* The setup steps of a run *)

\* the step of process_excel_file after the setup step at `at`
AfterSetup(at) ==
    CASE at = "raw_data_setup" -> "data_map_setup"
      [] at = "data_map_setup" -> "cqm_setup"

\* the run is at raw_data_initial_setup or data_map_initial_setup and the
\* workbook has no sheet of the title the step works on
AtSkippedSetup ==
    /\ pc \in {"raw_data_setup", "data_map_setup"}
    /\ ~raising
    /\ ~HasSheet(sheets, SetupSheet(pc))

AllTabsCreated == \A i \in 1..NumQuestions : Cardinality(TabsNamed(i)) = 1

\* the loop has gone through its ten slots: the last ten sheets of the
\* workbook are the tabs it created, in order, whatever title each was given
TenTabsBuilt ==
    /\ slot = NumQuestions + 1
    /\ Len(sheets) >= NumQuestions
    /\ \A i \in 1..NumQuestions :
          ValueAt(sheets[Len(sheets) - NumQuestions + i].cells, 1, 1) = IntV(i)

\* C13: a missing required sheet skips the dependent setup step without
\* failing the run.  With no sheet titled 'raw data' (respectively 'data map')
\* the step raw_data_initial_setup (respectively data_map_initial_setup)
\* returns to the next statement without raising and with every sheet of the
\* workbook as it was; and a run that ends without an exception has the tabs
\* Q1..Q10, whichever sheets were missing.
C13_MissingSheetSkips ==
    /\ [][AtSkippedSetup =>
            /\ sheets' = sheets
            /\ ~raising'
            /\ pc' = AfterSetup(pc)]_vars
    /\ []((pc = "done" /\ ~raising) => AllTabsCreated)

\* a run on a workbook whose sheets are named "Raw Data" and "Data Map": both
\* steps were skipped, both sheets are as they were loaded, and the run is
\* complete with its ten tabs
C13_Witness ==
    /\ pc = "done" /\ ~raising
    /\ ~HasSheet(sheets, SHEET_RAW_DATA)
    /\ ~HasSheet(sheets, SHEET_DATA_MAP)
    /\ Len(inFile.sheets) = 2
    /\ sheets[1] = inFile.sheets[1]
    /\ sheets[2] = inFile.sheets[2]
    /\ DOMAIN sheets[1].cells # {}
    /\ AllTabsCreated
    /\ TabCells(1) = BareTab(1, <<"D","a","t","a"," ","m","a","p"," ","n","o","t"," ","a","v","a","i","l","a","b","l","e">>)

----------------------------------------------------------------------------
(* The outcome of main *)

\* the run went through every phase and the final save
RunSucceeded == pc = "done" /\ ~raising /\ disk.output = "final" /\ TenTabsBuilt

\* the input path has no file, or a suffix outside .xlsx, .xlsm and .xls,
\* upper and lower case taken as the same
LoadMustFail ==
    \/ ~inFile.exists
    \/ Lower(inFile.suffix) \notin {<<".","x","l","s","x">>, <<".","x","l","s","m">>, <<".","x","l","s">>}

NothingWritten == disk = [formulas |-> "absent", output |-> "absent"]

\* C14: main returns 0 exactly when the whole run succeeded, and 1, with
\* "Error: " and the exception's message printed, when an exception left
\* process_excel_file; a missing input file and a suffix outside .xlsx, .xlsm
\* and .xls (case ignored) never give a loaded workbook, a written file or
\* exit code 0, and a failed save gives exit code 1.
C14_ExitCode ==
    /\ exitCode \in {-1, 0, 1}
    /\ exitCode = 0 => RunSucceeded /\ printed[1] = "Successfully processed: "
    /\ exitCode = 1 =>
          /\ raising /\ frames = <<>>
          /\ exc # <<>>
          /\ printed = <<"Error: ">> \o exc
          /\ ~RunSucceeded
    /\ (exitCode = -1) => printed = <<>>
    /\ LoadMustFail => sheets = <<>> /\ NothingWritten /\ exitCode # 0 /\ pc = "load"
    /\ (exitCode # -1 /\ LoadMustFail) => exitCode = 1
    /\ (exitCode # -1 /\ exc = <<"s","a","v","e">>) => exitCode = 1

\* main has returned 1 for an input named with the suffix .csv, with the
\* message of the ValueError printed
C14_Witness ==
    /\ exitCode = 1
    /\ inFile.exists
    /\ inFile.suffix = <<".","c","s","v">>
    /\ printed = <<"Error: ", "Not a valid Excel file: ", "input_file">>
    /\ sheets = <<>>
    /\ NothingWritten

----------------------------------------------------------------------------
(* get_next_version_filename (utils/file_utils.py) *)

\* filepath.exists(), for the path of `version`
version_exists(existing, version) == version \in existing

\* line 29: version += 1
next_version_skipping(version) == version + 2

next_version(version) == version + 1

\* the call is made with any set of versioned files in the directory; a
\* directory that does not exist yet holds none
VersionInit ==
    /\ RenderIdle
    /\ LookupIdle
    /\ ExtractIdle
    /\ PipelineIdle
    /\ MarkerIdle
    /\ vfDir \in BOOLEAN
    /\ vfExisting \in SUBSET (1..MaxVersion)
    /\ ~vfDir => vfExisting = {}
    /\ vfVersion = 0
    /\ vfPc = "mkdir"
    /\ vfResult = 0

\* lines 20-23: output_dir.mkdir(exist_ok=True); version = 1
MakeOutputDir ==
    /\ vfPc = "mkdir"
    /\ vfDir' = TRUE
    /\ vfVersion' = 1
    /\ vfPc' = "loop"
    /\ UNCHANGED <<vfExisting, vfResult, rnVars, lkVars, exVars, plVars, smVars>>

\* lines 24-29: the path of this version exists
TryNextVersion ==
    /\ vfPc = "loop"
    /\ version_exists(vfExisting, vfVersion)
    /\ vfVersion' = next_version(vfVersion)
    /\ UNCHANGED <<vfDir, vfExisting, vfPc, vfResult, rnVars, lkVars, exVars, plVars, smVars>>

\* lines 24-28: it does not, and the path is returned
ReturnFilename ==
    /\ vfPc = "loop"
    /\ ~version_exists(vfExisting, vfVersion)
    /\ vfResult' = vfVersion
    /\ vfPc' = "returned"
    /\ UNCHANGED <<vfDir, vfExisting, vfVersion, rnVars, lkVars, exVars, plVars, smVars>>

VersionNext == MakeOutputDir \/ TryNextVersion \/ ReturnFilename

\* the function runs on until it returns
SpecVersion == VersionInit /\ [][VersionNext]_vars /\ WF_vars(VersionNext)

\* C15: for any finite set of files in the output directory,
\* get_next_version_filename terminates; the version N of the path it returns
\* is at least 1 and names no existing file, every smaller N >= 1 names an
\* existing file, and no step of the function adds or removes a file.
C15_NextVersion ==
    /\ <>(vfPc = "returned")
    /\ [](vfPc = "returned" =>
            /\ vfResult >= 1
            /\ vfResult \notin vfExisting
            /\ \A n \in 1..(vfResult - 1) : n \in vfExisting)
    /\ [][vfExisting' = vfExisting]_vars

\* versions 1 and 2 exist and so does 5: the function has returned version 3
C15_Witness ==
    /\ vfPc = "returned"
    /\ vfExisting = {1, 2, 5}
    /\ vfResult = 3

----------------------------------------------------------------------------
(* The markers of the column question map: simulation and formulas *)

\* the lower-case letter c stands for
UpperOf(c) ==
    IF \E k \in 1..26 : LowerSeq[k] = c
    THEN UpperSeq[CHOOSE k \in 1..26 : LowerSeq[k] = c]
    ELSE c

\* Excel's UPPER(text) and LEFT(text, num_chars)
ExcelUpper(text) == [k \in 1..Len(text) |-> UpperOf(text[k])]

ExcelLeft(text, num_chars) ==
    SubSeq(text, 1, IF num_chars < Len(text) THEN num_chars ELSE Len(text))

TextSurvey == <<"S","u","r","v","e","y">>

\* the value of D3 for the text c3 of C3 (line 113): LEFT returns text, so
\* ISTEXT(LEFT(C3,1)) holds, and EXACT compares with case
FormulaD3Value(c3) ==
    IF ExcelLeft(c3, 1) = ExcelUpper(ExcelLeft(c3, 1)) THEN TextSurvey ELSE TextSystem

\* the value of E3 for the text c3 of C3 (line 115); FIND compares with case
FormulaE3Value(c3) ==
    IF FormulaD3Value(c3) = TextSystem THEN TextSystem
    ELSE IF FindText(<<"_">>, c3) > 0
    THEN ExcelLeft(c3, FindText(<<"_">>, c3) - 1)
    ELSE IF FindText(<<"n","o","n","e">>, c3) > 0
    THEN ExcelLeft(c3, FindText(<<"n","o","n","e">>, c3) - 1)
    ELSE IF FindText(<<"r">>, c3) > 0
    THEN ExcelLeft(c3, FindText(<<"r">>, c3) - 1)
    ELSE c3

\* headers of a raw-data sheet: system columns, questions, option and loop
\* columns, a header that starts with a digit, one with a space in front, and
\* headers with an "r" before a "_" and before a "none"
SampleHeaders ==
    {<<"r","e","c","o","r","d">>,
     <<"u","u","i","d">>,
     <<"S","1">>,
     <<"S","1","r","6","o","e">>,
     <<"S","2","r","1">>,
     <<"Q","2","_","1">>,
     <<"Q","5","n","o","n","e">>,
     <<"S","y","s","t","e","m">>,
     <<"1","a">>,
     <<" ","S","1">>,
     <<"Q","3","r","1","_","2">>,
     <<"Q","6","r","2","n","o","n","e">>}

\* column C of the column question map with the headers in C3, C4, ...
HeaderColumn(headers) ==
    [cell \in {<<2 + k, 3>> : k \in 1..Len(headers)} |-> StrV(headers[cell[1] - 2])]

MarkerInit ==
    /\ RenderIdle
    /\ LookupIdle
    /\ ExtractIdle
    /\ PipelineIdle
    /\ VersionIdle
    /\ smHeaders \in UNION {[1..n -> SampleHeaders] : n \in 1..MaxHeaders}
    /\ smG = <<>>
    /\ smE = <<>>
    /\ smPc = "setup"

\* column_question_map_initial_setup, lines 165-205: the simulation fills G
SimulateColumnE ==
    /\ smPc = "setup"
    /\ smG' = UniqueValues(HeaderColumn(smHeaders), 3, 2 + Len(smHeaders), <<>>)
    /\ smPc' = "simulated"
    /\ UNCHANGED <<smHeaders, smE, rnVars, lkVars, exVars, plVars, vfVars>>

\* calculate_excel_formulas: Excel calculates the formulas copied down
\* column E
ExcelCalculatesColumnE ==
    /\ smPc = "simulated"
    /\ smE' = [k \in 1..Len(smHeaders) |-> FormulaE3Value(smHeaders[k])]
    /\ smPc' = "calculated"
    /\ UNCHANGED <<smHeaders, smG, rnVars, lkVars, exVars, plVars, vfVars>>

MarkerNext == SimulateColumnE \/ ExcelCalculatesColumnE

SpecMarker == MarkerInit /\ [][MarkerNext]_vars

\* the values of a list other than "System", each at its first occurrence
RECURSIVE FirstOccurrences(_, _)
FirstOccurrences(values, kept) ==
    IF values = <<>> THEN kept
    ELSE FirstOccurrences(Tail(values),
                          IF Head(values) = TextSystem
                             \/ \E k \in DOMAIN kept : kept[k] = Head(values)
                          THEN kept
                          ELSE Append(kept, Head(values)))

\* C16: the simulation agrees with the formulas D3/E3 on every header.  It
\* takes a header for a system column exactly when the formula of column E
\* gives "System", derives the same marker otherwise, and so the list written
\* to column G is the list of the values of column E other than "System",
\* each at its first occurrence, in the same order.
C16_SimulationAgrees ==
    smPc = "calculated" =>
        /\ \A k \in 1..Len(smHeaders) :
              SimulatedMarker(StrV(smHeaders[k])) =
                  (IF smE[k] = TextSystem THEN <<>> ELSE smE[k])
        /\ smG = FirstOccurrences(smE, <<>>)

----------------------------------------------------------------------------
(* What a run leaves at the output path *)

\* C17: all-or-nothing output.  When process_excel_file has ended with an
\* exception, whatever the phase it was raised in, the output path holds no
\* workbook of this run; and the output path holds a workbook of this run only
\* when every phase and all ten question builds have succeeded.
C17_AllOrNothing ==
    /\ (raising /\ frames = <<>>) => disk.output = "absent"
    /\ disk.output # "absent" => RunSucceeded

----------------------------------------------------------------------------
(* Absolute ranges and the two directions of a render *)

\* position p of s starts an absolute reference: `$`, column letters, `$`,
\* row digits
AbsoluteRefAt(s, p) ==
    /\ s[p] = "$"
    /\ p < Len(s)
    /\ LET j == UpperRunEnd(s, p + 1)
       IN /\ j > p + 1
          /\ j < Len(s)
          /\ s[j] = "$"
          /\ DigitRunEnd(s, j + 1) > j + 1

AbsoluteRefText(s, p) == SubSeq(s, p, DigitRunEnd(s, UpperRunEnd(s, p + 1) + 1) - 1)

\* the absolute references of a formula, left to right
AbsoluteRefs(s) ==
    LET starts == {p \in 1..Len(s) : AbsoluteRefAt(s, p)}
    IN [k \in 1..Cardinality(starts) |->
           AbsoluteRefText(s, CHOOSE p \in starts :
                                 Cardinality({q \in starts : q < p}) = k - 1)]

\* C18: no render changes a character of an absolute range of its template.
\* After the copy-down of the map builders and after the drag of the
\* cross-cut block into columns E..N, the rendered formula has the absolute
\* references of its source, each exactly as written there, those with a
\* column of more than one letter included.
C18_AbsoluteRangesKept ==
    rnDir \in {"down", "across"} =>
        AbsoluteRefs(rnOut) = AbsoluteRefs(PartsText(rnParts))

\* `out` is the text of the template `parts`, but for the part named: the
\* row digits ("row") or the column letters ("col") of its reference tokens,
\* which may be any digits or any letters
RECURSIVE DiffersOnlyIn(_, _, _)
DiffersOnlyIn(out, parts, part) ==
    IF parts = <<>> THEN out = <<>>
    ELSE LET p == Head(parts)
         IN IF p.kind # "ref"
            THEN LET text == PartText(p)
                 IN /\ Len(out) >= Len(text)
                    /\ SubSeq(out, 1, Len(text)) = text
                    /\ DiffersOnlyIn(SubSeq(out, Len(text) + 1, Len(out)), Tail(parts), part)
            ELSE LET c0 == IF p.colAbs THEN 2 ELSE 1
                     c1 == IF part = "col" THEN UpperRunEnd(out, c0) ELSE c0 + Len(p.col)
                     r0 == IF p.rowAbs THEN c1 + 1 ELSE c1
                     r1 == IF part = "row" THEN DigitRunEnd(out, r0)
                           ELSE r0 + Len(IntStr(p.row))
                 IN /\ r1 - 1 <= Len(out)
                    /\ c1 > c0 /\ r1 > r0
                    /\ p.colAbs => out[1] = "$"
                    /\ p.rowAbs => out[c1] = "$"
                    /\ part = "row" => SubSeq(out, c0, c1 - 1) = p.col
                    /\ part = "col" => SubSeq(out, r0, r1 - 1) = IntStr(p.row)
                    /\ DiffersOnlyIn(SubSeq(out, r1, Len(out)), Tail(parts), part)

----------------------------------------------------------------------------
(* The sheet names after initial_set_up *)

\* a sheet name with its case and its spaces ignored
NormalName(title) == SelectSeq(Lower(title), LAMBDA c : c # " ")

\* C19: sheet-name normalization ignores case and spacing.  Once
\* initial_set_up has returned, every input sheet whose name is "raw data"
\* (respectively "data map") up to case and spaces is titled exactly
\* 'raw data' (respectively 'data map'), and the question-tab builder finds
\* the data map of such a workbook.
C19_NamesNormalised ==
    /\ pc \notin {"idle", "load", "initial_set_up"} =>
          \A k \in DOMAIN inFile.sheets :
             /\ NormalName(inFile.sheets[k].title) = <<"r","a","w","d","a","t","a">> =>
                   sheets[k].title = SHEET_RAW_DATA
             /\ NormalName(inFile.sheets[k].title) = <<"d","a","t","a","m","a","p">> =>
                   sheets[k].title = SHEET_DATA_MAP
    /\ (/\ pc \in {"tabs", "final_save", "done"}
        /\ \E k \in DOMAIN inFile.sheets :
              NormalName(inFile.sheets[k].title) = <<"d","a","t","a","m","a","p">>) =>
          hasDataMap

----------------------------------------------------------------------------
(* The order of the phases of a run *)

Phases ==
    <<"load", "initial_set_up", "raw_data_setup", "data_map_setup", "cqm_setup",
      "save_formulas", "save", "calculate", "reload", "tabs", "final_save", "done">>

\* the place of a statement in the order of process_excel_file
PhaseRank(at) == CHOOSE k \in DOMAIN Phases : Phases[k] = at

Reached(at) == PhaseRank(pc) >= PhaseRank(at)

\* C21: the phases of a run come in order.  The run moves from a phase to the
\* next one only: load, sheet normalization, raw-data setup, data-map setup,
\* column-question-map setup, the saves, the recalculation, the reload, the
\* ten tabs, the final save.  The workbook is at the output path when the
\* recalculation is invoked; the recalculation has been attempted and has
\* returned when the first tab is created; and the final save has happened
\* only with all ten tabs built.
C21_PhaseOrder ==
    /\ [][PhaseRank(pc') \in {PhaseRank(pc), PhaseRank(pc) + 1}]_vars
    /\ [](Reached("calculate") => disk.output # "absent" /\ disk.formulas = "written")
    /\ [](calcResult # "not_run" => Reached("calculate"))
    /\ [](Reached("reload") => calcResult # "not_run")
    /\ []((\E i \in 1..NumQuestions : dispatched[i] # "pending") =>
             Reached("tabs") /\ calcResult # "not_run")
    /\ [](disk.output = "final" =>
             /\ pc = "done"
             /\ \A i \in 1..NumQuestions : dispatched[i] # "pending"
             /\ TenTabsBuilt)

\* a complete run on the full data map, Excel having calculated it
C21_Witness ==
    /\ pc = "done" /\ ~raising
    /\ disk = [formulas |-> "written", output |-> "final"]
    /\ calcResult = "success"
    /\ dataMap = FullMap
    /\ HasSheet(sheets, SHEET_COLUMN_QUESTION_MAP)
    /\ \A i \in 1..NumQuestions : dispatched[i] # "pending"

----------------------------------------------------------------------------
(* The truncation rule of the question marker *)

\* the header starts with an upper-case letter: a survey column for the
\* simulation and for the formula of column D alike
IsSurveyHeader(header) == Len(header) > 0 /\ IsUpper(header[1])

\* the text before the first occurrence of sub in text
Before(text, sub) == SubSeq(text, 1, FindText(sub, text) - 1)

\* the cut by the priority "_", "none", "r"
PriorityCut(header) ==
    IF InText(<<"_">>, header) THEN Before(header, <<"_">>)
    ELSE IF InText(<<"n","o","n","e">>, header) THEN Before(header, <<"n","o","n","e">>)
    ELSE IF InText(<<"r">>, header) THEN Before(header, <<"r">>)
    ELSE header

\* C22: the marker of a survey column header is the header cut before its
\* first "_" if it has one, otherwise before its first "none", otherwise
\* before its first "r", otherwise the whole header: by this priority and not
\* by the earliest delimiter.  The formula of column E gives this marker and
\* the simulation puts it on the list of column G.
C22_MarkerTruncation ==
    \A k \in DOMAIN smHeaders :
        IsSurveyHeader(smHeaders[k]) =>
            /\ smPc = "calculated" => smE[k] = PriorityCut(smHeaders[k])
            /\ (smPc \in {"simulated", "calculated"}
                /\ PriorityCut(smHeaders[k]) \notin {<<>>, TextSystem}) =>
                  \E g \in DOMAIN smG : smG[g] = PriorityCut(smHeaders[k])

\* "Q3r1_2" has an "r" and a later "_": the marker is "Q3r1"
C22_Witness ==
    /\ smPc = "calculated"
    /\ smHeaders = <<<<"Q","3","r","1","_","2">>>>
    /\ smG = <<<<"Q","3","r","1">>>>
    /\ smE = <<<<"Q","3","r","1">>>>

----------------------------------------------------------------------------
(* The copy-down of the data map's row 4 *)

\* the data-map sheet of the workbook in memory
DataMapSheet == sheets[SheetIndex(sheets, SHEET_DATA_MAP)].cells

\* data_map_initial_setup has returned on a workbook with a 'data map' sheet
\* and the formulas are still in memory
DataMapIsSetUp ==
    /\ pc \in {"cqm_setup", "save_formulas", "save", "calculate", "reload"}
    /\ HasSheet(sheets, SHEET_DATA_MAP)

\* C23: after data_map_initial_setup on a data map whose last row with text
\* in column C is L >= 4, every row r of 4..L+1 holds, in every column of
\* G..AG that is filled at row 4 (column Y with its placeholder included), the
\* content of row 4 rendered down to row r.
C23_CopyDownComplete ==
    DataMapIsSetUp =>
        LET ws == DataMapSheet
            L == LastRowWithText(ws)
        IN L >= 4 =>
             \A r \in 4..(L + 1) : \A col \in 7..33 :
                 NonBlank(ValueAt(ws, 4, col)) =>
                     ValueAt(ws, r, col) = StrV(RenderDown(ValueAt(ws, 4, col).s, r - 4))

----------------------------------------------------------------------------
(* The FILTER template of Q6 *)

TextFilterCall == <<"=","F","I","L","T","E","R","(">>

\* the text is not a formula, and behind a prefix it holds the FILTER formula
IsInertFilter(v) ==
    /\ v # None /\ v.t = "str"
    /\ v.s[1] # "="
    /\ FindText(TextFilterCall, v.s) > 1

\* C24: the FILTER template is inert.  In every tab, at every point of the
\* run, a bracketed text in Q4 comes with the template in Q6 and Q6 holds
\* nothing else; the template is a text that does not begin with "=" and
\* holds "=FILTER(" behind its prefix; and the Cross Cut section, the drag of
\* column D into E..N and the rest of the build leave Q6 as it was written.
C24_FilterInert ==
    \A i \in 1..NumQuestions :
        TabsNamed(i) # {} /\ dispatched[i] # "pending" =>
            LET ws == TabCells(i)
            IN /\ ValueAt(ws, 4, 17) # None => ValueAt(ws, 6, 17) # None
               /\ ValueAt(ws, 6, 17) # None =>
                     /\ IsInertFilter(ValueAt(ws, 6, 17))
                     /\ ValueAt(ws, 6, 17) = StrV(filter_formula)
                     /\ dispatched[i] = "cut_single_select_with_other"

\* a finished with-other tab with the template in Q6 and the dragged
\* formulas of the Cross Cut section in column N
C24_Witness ==
    /\ pc = "done" /\ ~raising
    /\ \E i \in 1..NumQuestions :
        /\ TabsNamed(i) # {}
        /\ dispatched[i] = "cut_single_select_with_other"
        /\ ValueAt(TabCells(i), 6, 17) = StrV(filter_formula)
        /\ ValueAt(TabCells(i), 4, 17) # None
        /\ \E row \in 1..max_row(TabCells(i)) :
              /\ ValueAt(TabCells(i), row, 3) = StrV(<<"C","r","o","s","s"," ","C","u","t">>)
              /\ ValueAt(TabCells(i), row + 12, 14) # None

----------------------------------------------------------------------------
(* The Cross Cut section of a finished tab *)

TextCrossCut == <<"C","r","o","s","s"," ","C","u","t">>

\* the rows of the tab whose column C holds "Cross Cut"
CrossCutRows(ws) == {row \in 1..max_row(ws) : ValueAt(ws, row, 3) = StrV(TextCrossCut)}

\* the last row of the option table: the row of "<>" in column C, row 6 when
\* no option table was written
OptionTableEnd(ws) ==
    LET rows == {row \in 6..max_row(ws) : ValueAt(ws, row, 3) = StrV(TextSentinel)}
    IN IF rows = {} THEN 6 ELSE MinOf(rows)

\* the header is two rows below the option table and the labels, the filter
\* values and the formulas of the section follow it
HasCrossCutBlock(ws) ==
    LET cross_cut_row == OptionTableEnd(ws) + 2
    IN /\ ValueAt(ws, cross_cut_row, 3) = StrV(TextCrossCut)
       /\ \A cell \in DOMAIN CrossCutLabelCells(cross_cut_row) :
              cell # <<cross_cut_row + 12, 3>> =>
                  ValueAt(ws, cell[1], cell[2]) = CrossCutLabelCells(cross_cut_row)[cell]
       /\ \A cell \in DOMAIN CrossCutFormulaCells(cross_cut_row) :
              ValueAt(ws, cell[1], cell[2]) = CrossCutFormulaCells(cross_cut_row)[cell]

\* C25: each question-type branch appends a Cross Cut block.  A tab that the
\* single-select builder or the with-other builder has finished holds "Cross
\* Cut" in column C two rows below the sentinel row of its option table,
\* followed by the filter labels and the lookup and count formulas of the
\* section.
C25_CrossCutAppended ==
    \A i \in 1..NumQuestions :
        /\ Built(i, "cut_single_select_with_other") => HasCrossCutBlock(TabCells(i))
        /\ Built(i, "cut_single_select") => HasCrossCutBlock(TabCells(i))

----------------------------------------------------------------------------
(* The frequency count of an option row *)

\* the last row of the option table written by extract_response_options
SentinelRow(question_ws) ==
    MinOf({row \in FirstOptionRow..max_row(question_ws) :
              ValueAt(question_ws, row, 3) = StrV(TextSentinel)})

\* the rows of the 'raw data' sheet that hold a respondent
RespondentRows(raw_ws) ==
    {row \in FirstRawRow..max_row(raw_ws) : \E c \in 1..max_column(raw_ws) : HasCell(raw_ws, row, c)}

\* the respondents whose value under the header in G4 is the option code
Respondents(question_ws, raw_ws, code) ==
    {row \in RespondentRows(raw_ws) :
        ExcelMeets(ValueAt(raw_ws, row,
                           FirstHeaderColumn + ExcelMatch(ValueAt(question_ws, 4, 7), raw_ws) - 1),
                   code)}

\* the question's response column is among the headers of the raw data
HasResponseColumn == ExcelMatch(ValueAt(exSheet, 4, 7), exRaw) # 0

\* every row of 6..s holds the filler in I..N and the count template with
\* its $G and $I..$N references on that row
FillerAndTemplate(question_ws) ==
    \A row \in FirstOptionRow..SentinelRow(question_ws) :
        /\ \A col_index \in 0..5 :
              ValueAt(question_ws, row, 9 + col_index) = StrV(pattern_values[col_index + 1])
        /\ ValueAt(question_ws, row, 4) = StrV(count_formula(row))
        /\ \A letter \in {"G", "I", "J", "K", "L", "M", "N"} :
              /\ InText(<<"$", letter>> \o IntStr(row) \o <<",">>, count_formula(row))
                 \/ InText(<<"$", letter>> \o IntStr(row) \o <<")">>, count_formula(row))
              /\ row # FirstOptionRow =>
                    ~InText(<<"$", letter, "6", ",">>, count_formula(row))

\* C26: every row of the option table, the sentinel row included, gets the
\* filler "record", "<>", "record", "<>", "record", "<>" in I..N and in D the
\* count template with its row references on that row; and with the three
\* filters at this default the count of an option row is the number of
\* respondent rows of the raw data whose value in the question's column is
\* the option code of the row: an unset filter removes no respondent.
C26_CountWithUnsetFilters ==
    (exState = "returned" /\ TableRows(exSheet) # {}) =>
        /\ FillerAndTemplate(exSheet)
        /\ (exCounts # <<>> /\ HasResponseColumn) =>
              \A row \in FirstOptionRow..(SentinelRow(exSheet) - 1) :
                  exCounts[row] =
                      IntV(Cardinality(Respondents(exSheet, exRaw, ValueAt(exSheet, row, 7))))

----------------------------------------------------------------------------
(* The propagation of an exception raised during a question's build *)

\* an exception is in flight inside create_question_tabs
RaisedInBuild == raising /\ pc = "tabs" /\ frames # <<>>

\* C27: every internal function that catches an exception logs it and
\* re-raises it.  An exception raised inside a helper reached during a
\* question's build, the data-map lookup helpers included, stays in flight
\* through every except clause and ends the run: it is never turned into a
\* 'not found' result with the loop going on.
C27_Propagation ==
    /\ [][RaisedInBuild => raising']_vars
    /\ [](caught = {})

----------------------------------------------------------------------------
(* The data rows of the Cross Cut section *)

\* the rows of the option table: from row 6 to the row with "<>" in columns
\* C and G, none when nothing was extracted
OptionTableRows(ws) ==
    LET ends == {row \in FirstOptionRow..max_row(ws) :
                    /\ ValueAt(ws, row, 7) = StrV(TextSentinel)
                    /\ ValueAt(ws, row, 3) = StrV(TextSentinel)}
    IN IF ends = {} THEN {} ELSE FirstOptionRow..MinOf(ends)

\* the rows of the section's data: those from 12 rows below the header on
\* that hold something in column C or D
CrossCutDataRows(ws) ==
    LET cross_cut_row == MinOf(CrossCutRows(ws))
    IN {row \in (cross_cut_row + 12)..max_row(ws) :
           HasCell(ws, row, 3) \/ HasCell(ws, row, 4)}

\* C28: the cross-cut table mirrors the option table.  In a tab finished by
\* the with-other builder whose option table has N options and the sentinel,
\* the data of the Cross Cut section is exactly N+1 rows from 12 rows below
\* the header on, the i-th holding "=C<6+i>" in column C and in column D the
\* count formula on $G<6+i>; when nothing was extracted the section has no
\* data row besides the one under its headers; options without a label
\* included.
C28_CrossCutMirrors ==
    \A q \in 1..NumQuestions :
        Built(q, "cut_single_select_with_other") =>
            LET ws == TabCells(q)
                cross_cut_row == MinOf(CrossCutRows(ws))
                rows == OptionTableRows(ws)
                count == Cardinality(rows)
            IN IF rows = {}
               THEN CrossCutDataRows(ws) \subseteq {cross_cut_row + 12}
               ELSE /\ CrossCutDataRows(ws) = (cross_cut_row + 12)..(cross_cut_row + 12 + count - 1)
                    /\ \A i \in 0..(count - 1) :
                          /\ ValueAt(ws, cross_cut_row + 12 + i, 3) =
                                StrV(<<"=","C">> \o IntStr(FirstOptionRow + i))
                          /\ ValueAt(ws, cross_cut_row + 12 + i, 4) =
                                StrV(countifs_formula(FirstOptionRow + i,
                                                      cross_cut_row + 3, cross_cut_row + 4,
                                                      cross_cut_row + 6, cross_cut_row + 7))

----------------------------------------------------------------------------
(* The list of unique markers in column G *)

\* columns G and H of the column question map as the setup leaves them
ColumnsGH == UniqueCells(smG) @@ NumberCells

\* the markers of the headers, in the order of the headers of column C
HeaderMarkers == [k \in 1..Len(smHeaders) |-> SimulatedMarker(StrV(smHeaders[k]))]

\* the position in column C of the first header with this marker
FirstOccurrence(marker) == MinOf({k \in 1..Len(smHeaders) : HeaderMarkers[k] = marker})

\* the rows of column G that hold a value
MarkerListRows == {cell[1] : cell \in {c \in DOMAIN ColumnsGH : c[2] = 7}}

\* the rank of a marker by first occurrence: 1 for the marker that occurs
\* first among the headers
OccurrenceRank(marker) ==
    1 + Cardinality({m \in {HeaderMarkers[k] : k \in 1..Len(smHeaders)} \ {<<>>} :
                        FirstOccurrence(m) < FirstOccurrence(marker)})

\* C29: after column_question_map_initial_setup the values of column G from
\* G3 down are in consecutive rows, not empty, never "System", pairwise
\* distinct and in the order of the first occurrence of each marker among the
\* headers of column C; so the number column H holds beside a marker is the
\* rank of the marker by first occurrence.
C29_UniqueMarkerList ==
    smPc \in {"simulated", "calculated"} =>
        /\ MarkerListRows = 3..(2 + Cardinality(MarkerListRows))
        /\ \A row \in MarkerListRows :
              LET g == ValueAt(ColumnsGH, row, 7)
              IN /\ g.t = "str" /\ Len(g.s) > 0 /\ g.s # TextSystem
                 /\ \E k \in 1..Len(smHeaders) : HeaderMarkers[k] = g.s
                 /\ \A other \in MarkerListRows :
                       /\ other # row => ValueAt(ColumnsGH, other, 7) # g
                       /\ other < row =>
                             FirstOccurrence(ValueAt(ColumnsGH, other, 7).s) < FirstOccurrence(g.s)
                 /\ ValueAt(ColumnsGH, row, 8) = IntV(OccurrenceRank(g.s))
        /\ \A k \in 1..Len(smHeaders) :
              Len(HeaderMarkers[k]) > 0 =>
                  \E row \in MarkerListRows : ValueAt(ColumnsGH, row, 7) = StrV(HeaderMarkers[k])

\* the headers S2r1, S1r6oe, S1: the list is S2, S1 in G3, G4 beside 1, 2
C29_Witness ==
    /\ smPc = "simulated"
    /\ smHeaders = <<<<"S","2","r","1">>, <<"S","1","r","6","o","e">>, <<"S","1">>>>
    /\ MarkerListRows = {3, 4}
    /\ ValueAt(ColumnsGH, 3, 7) = StrV(<<"S","2">>)
    /\ ValueAt(ColumnsGH, 4, 7) = StrV(<<"S","1">>)
    /\ ValueAt(ColumnsGH, 4, 8) = IntV(2)

----------------------------------------------------------------------------
(* Building the tabs over a workbook that holds sheets already *)

\* the names Q1..Q10
QuestionTabNames == {tab_name(i) : i \in 1..NumQuestions}

\* the names Q1..Q10 with the number openpyxl appends to a duplicate
SuffixedTabNames == {tab_name(i) \o <<"1">> : i \in 1..NumQuestions}

\* create_question_tabs has returned without an exception
TabsBuilt == pc \in {"final_save", "done"} /\ ~raising /\ caught = {}

\* the tab as a run on a workbook without earlier tabs builds it: a function
\* of the slot and the data map alone
FreshTab(i) ==
    Build(BuilderOf(i, hasDataMap, dataMap), TabHeader(i, hasDataMap, dataMap),
          i, hasDataMap, dataMap)

\* one step of the loop keeps every sheet that is not named Q1..Q10 as it is
OtherSheetsKept ==
    pc = "tabs" =>
        \A k \in DOMAIN sheets :
            sheets[k].title \notin QuestionTabNames =>
                \E j \in DOMAIN sheets' : sheets'[j] = sheets[k]

\* C30: after create_question_tabs, whatever sheets the workbook held, there
\* is exactly one sheet for each name Q1..Q10 and none with a suffixed name,
\* each tab is as a run on a workbook without earlier tabs builds it (so a
\* second run on the same data map gives the same names and cells), the tabs
\* are the last ten sheets in the order Q1..Q10, and every sheet not named
\* Q1..Q10 is kept as it was.
C30_TabsIdempotent ==
    /\ [](TabsBuilt =>
            /\ \A i \in 1..NumQuestions :
                  /\ Cardinality(TabsNamed(i)) = 1
                  /\ \A k \in TabsNamed(i) :
                        /\ sheets[k].cells = FreshTab(i)
                        /\ k = Len(sheets) - NumQuestions + i
            /\ \A k \in DOMAIN sheets : sheets[k].title \notin SuffixedTabNames)
    /\ [][OtherSheetsKept]_vars

====
